---- MODULE Spec2Model ----
(***************************************************************************)
(* A model of src/main.py: the subscription converter that aggregates      *)
(* proxy nodes from several sources, renames them by location, merges a    *)
(* manual list, synthesizes chain nodes, expands policy groups and renders *)
(* the result for the targets "surge" (text dialect) and "clash"           *)
(* (structured dialect).                                                   *)
(*                                                                         *)
(* A Python str is modelled as a sequence of one-character strings, so     *)
(* that substring tests, splitting, stripping and formatting are computed  *)
(* as the code computes them.  A non-ASCII code point is one element named *)
(* "uXXXX".                                                                *)
(***************************************************************************)
EXTENDS Integers, Sequences, FiniteSets, TLC

VARIABLES
    conf,               \* the settings read by load_main_config and the manual list
    SOURCE_CACHE,       \* {url: {'content', 'expires_at'}}, shared by all runs
    now,                \* datetime.datetime.now(), in seconds
    pc,                 \* per run: the part of process_*_config that comes next
    target,             \* per run: the target of the request
    src_idx,            \* per run: the index of the source that comes next
    renamer,            \* per run: the counters of its LocationRenamer
    seen_fingerprints,  \* per run
    seen_names,         \* per run (process_clash_config)
    all_proxies,        \* per run: ordered dict name -> line (surge), list of records (clash)
    output,             \* per run: the value returned
    fetched,            \* per run: what fetch_content_cached returned, source by source
    published,          \* per run: the contents handed to upload_to_gist
    calls,              \* the get_name calls made on a Renamer on its own
    unit                \* the inputs and the result of a function called on its own

runVars == <<pc, target, src_idx, renamer, seen_fingerprints, seen_names,
             all_proxies, output, fetched, published>>

vars == <<conf, SOURCE_CACHE, now, runVars, calls, unit>>

(***************************************************************************)
(* str operations                                                          *)
(***************************************************************************)
Whitespace == {" ", "\t", "\n", "\r"}

UpperSeq == <<"A","B","C","D","E","F","G","H","I","J","K","L","M",
              "N","O","P","Q","R","S","T","U","V","W","X","Y","Z">>

LowerSeq == <<"a","b","c","d","e","f","g","h","i","j","k","l","m",
              "n","o","p","q","r","s","t","u","v","w","x","y","z">>

DigitSeq == <<"0","1","2","3","4","5","6","7","8","9">>

Range(s) == {s[i] : i \in 1..Len(s)}

\* the code points above 127 that occur in the modelled inputs and keywords
NonAsciiChars == {"u65E5", "u672C"}

\* \w of Python's re on str: letters, digits, underscore (CJK ideographs included)
WordChars == Range(UpperSeq) \cup Range(LowerSeq) \cup Range(DigitSeq)
             \cup {"_"} \cup NonAsciiChars

\* the lower-case letter of every upper-case letter
LowerOf ==
    [c \in Range(UpperSeq) |-> LowerSeq[CHOOSE i \in 1..Len(UpperSeq) : UpperSeq[i] = c]]

LowerChar(c) == IF c \in DOMAIN LowerOf THEN LowerOf[c] ELSE c

\* str.lower()
Lower(s) == [i \in 1..Len(s) |-> LowerChar(s[i])]

\* sub in s
Contains(s, sub) ==
    \E i \in 1..(Len(s) - Len(sub) + 1) : SubSeq(s, i, i + Len(sub) - 1) = sub

\* s.find(sub) + 1: the 1-based position of the first occurrence, 0 if none
Find(s, sub) ==
    IF Contains(s, sub)
    THEN CHOOSE i \in 1..(Len(s) - Len(sub) + 1) :
            /\ SubSeq(s, i, i + Len(sub) - 1) = sub
            /\ \A j \in 1..(i - 1) : SubSeq(s, j, j + Len(sub) - 1) # sub
    ELSE 0

\* s.startswith(p)
StartsWith(s, p) == Len(p) <= Len(s) /\ SubSeq(s, 1, Len(p)) = p

\* s.endswith(p)
EndsWith(s, p) == Len(p) <= Len(s) /\ SubSeq(s, Len(s) - Len(p) + 1, Len(s)) = p

\* s.strip()
Strip(s) ==
    LET keep == {i \in 1..Len(s) : s[i] \notin Whitespace}
    IN  IF keep = {} THEN <<>>
        ELSE SubSeq(s, CHOOSE i \in keep : \A j \in keep : i <= j,
                       CHOOSE i \in keep : \A j \in keep : i >= j)

RECURSIVE Split(_, _)
\* s.split(sep)
Split(s, sep) ==
    LET i == Find(s, sep)
    IN  IF i = 0 THEN <<s>>
        ELSE <<SubSeq(s, 1, i - 1)>> \o Split(SubSeq(s, i + Len(sep), Len(s)), sep)

\* s.split(sep, 1)
SplitOnce(s, sep) ==
    LET i == Find(s, sep)
    IN  IF i = 0 THEN <<s>>
        ELSE <<SubSeq(s, 1, i - 1), SubSeq(s, i + Len(sep), Len(s))>>

RECURSIVE SplitWhitespace(_)
\* s.split(): the maximal runs of non-whitespace characters
SplitWhitespace(s) ==
    LET keep == {i \in 1..Len(s) : s[i] \notin Whitespace}
    IN  IF keep = {} THEN <<>>
        ELSE LET b == CHOOSE i \in keep : \A j \in keep : i <= j
                 ws == {i \in b..Len(s) : s[i] \in Whitespace}
                 e == IF ws = {} THEN Len(s) + 1
                      ELSE CHOOSE i \in ws : \A j \in ws : i <= j
             IN  <<SubSeq(s, b, e - 1)>> \o SplitWhitespace(SubSeq(s, e, Len(s)))

RECURSIVE Replace(_, _, _)
\* s.replace(old, new), old not empty
Replace(s, old, new) ==
    LET i == Find(s, old)
    IN  IF i = 0 THEN s
        ELSE SubSeq(s, 1, i - 1) \o new
             \o Replace(SubSeq(s, i + Len(old), Len(s)), old, new)

RECURSIVE Join(_, _)
\* sep.join(parts)
Join(parts, sep) ==
    IF parts = <<>> THEN <<>>
    ELSE IF Len(parts) = 1 THEN parts[1]
    ELSE parts[1] \o sep \o Join(Tail(parts), sep)

RECURSIVE Decimal(_)
\* str(n) for n >= 0
Decimal(n) ==
    IF n < 10 THEN <<DigitSeq[n + 1]>>
    ELSE Decimal(n \div 10) \o <<DigitSeq[(n % 10) + 1]>>

\* f"{n:02d}"
Format02d(n) == IF n < 10 THEN <<"0">> \o Decimal(n) ELSE Decimal(n)

\* [f(x) for x in seq]
MapSeq(seq, F(_)) == [i \in 1..Len(seq) |-> F(seq[i])]

\* defaultdict(int)[key]
CounterGet(counters, key) == IF key \in DOMAIN counters THEN counters[key] ELSE 0

EmptyMap == [k \in {} |-> 0]

(***************************************************************************)
(* LocationRenamer                                                         *)
(***************************************************************************)
\* self.mappings, in the table's order; the model keeps five of the fifteen
\* regions and some of their keywords
mappings == <<
    [code |-> <<"H","K">>,
     keywords |-> << <<"H","o","n","g"," ","K","o","n","g">>, <<"H","K">> >>],
    [code |-> <<"T","W">>,
     keywords |-> << <<"T","a","i","w","a","n">>, <<"T","W">>,
                     <<"T","a","i","p","e","i">> >>],
    [code |-> <<"J","P">>,
     keywords |-> << <<"J","a","p","a","n">>, <<"J","P">>,
                     <<"T","o","k","y","o">>, <<"u65E5","u672C">> >>],
    [code |-> <<"U","S">>,
     keywords |-> << <<"U","S">>, <<"U","S","A">> >>],
    [code |-> <<"K","R">>,
     keywords |-> << <<"K","o","r","e","a">>, <<"K","R">>,
                     <<"S","e","o","u","l">> >>] >>

\* original_name.startswith('[') and ']' in original_name
HasBracketPrefix(name) == StartsWith(name, <<"[">>) /\ Contains(name, <<"]">>)

\* original_name[:prefix_end + 1], or "" without a bracket prefix
BracketPrefix(name) ==
    IF HasBracketPrefix(name) THEN SubSeq(name, 1, Find(name, <<"]">>)) ELSE <<>>

\* original_name[prefix_end + 1:].strip(), or the name itself
NameWithoutPrefix(name) ==
    IF HasBracketPrefix(name)
    THEN Strip(SubSeq(name, Find(name, <<"]">>) + 1, Len(name)))
    ELSE name

\* all(ord(c) < 128 for c in kw)
IsAscii(kw) == \A i \in 1..Len(kw) : kw[i] \notin NonAsciiChars

\* \b between s[p] and s[p + 1] (p = 0: the start, p = Len(s): the end)
WordBoundary(s, p) ==
    (p > 0 /\ s[p] \in WordChars) # (p < Len(s) /\ s[p + 1] \in WordChars)

\* re.search(r'(?i)\b' + re.escape(kw) + r'\b', s)
WordSearch(kw, s) ==
    LET kw_lower == Lower(kw)
        s_lower == Lower(s)
    IN  \E i \in 1..(Len(s) - Len(kw) + 1) :
            /\ SubSeq(s_lower, i, i + Len(kw) - 1) = kw_lower
            /\ WordBoundary(s, i - 1)
            /\ WordBoundary(s, i + Len(kw) - 1)

KeywordMatches(kw, s) == IF IsAscii(kw) THEN WordSearch(kw, s) ELSE Contains(s, kw)

\* the region whose keyword hits first in table order, or "" (matched_code None)
MatchedCode(s) ==
    LET First(hits) ==
            IF hits = {} THEN <<>>
            ELSE mappings[CHOOSE m \in hits : \A n \in hits : m <= n].code
    IN  First({m \in 1..Len(mappings) :
                  \E k \in 1..Len(mappings[m].keywords) :
                      KeywordMatches(mappings[m].keywords[k], s)})

OtherLabel == <<"o","t","h","e","r">>

\* the label of the bucket a name falls into: the matched code or "other"
BucketLabel(name) ==
    LET Label(code) == IF code # <<>> THEN code ELSE OtherLabel
    IN  Label(MatchedCode(NameWithoutPrefix(name)))

\* counter_key = f"{prefix}_{matched_code}" / f"{prefix}_other"
CounterKey_WithoutPrefix(prefix, label) == <<"_">> \o label

CounterKey(prefix, label) == prefix \o <<"_">> \o label

\* get_name(original_name) on a Renamer with these counters: the counters
\* after the call and the name returned
GetName(counters, original_name) ==
    LET Named(prefix, node_name) ==
            IF prefix # <<>> THEN prefix \o <<" ">> \o node_name ELSE node_name
        Counted(prefix, label, key, n) ==
            [counters |-> (key :> n) @@ counters,
             name |-> Named(prefix, label \o <<" ">> \o Format02d(n))]
        Keyed(prefix, label, key) ==
            Counted(prefix, label, key, CounterGet(counters, key) + 1)
        Labelled(prefix, label) == Keyed(prefix, label, CounterKey(prefix, label))
    IN  Labelled(BracketPrefix(original_name), BucketLabel(original_name))

(***************************************************************************)
(* Dynamic clause of a group rule: filter_node_list                        *)
(***************************************************************************)

NoMatch == [found |-> FALSE, whole |-> <<>>, content |-> <<>>]

\* re.search(r"\{all\s*(.*?)\}", rule_str): group(0) is whole, group(1) content.
\* The leftmost "{all" that is followed by a "}" matches, up to the first "}".
ClauseMatch(rule_str) ==
    LET i == Find(rule_str, <<"{","a","l","l">>)
        rest == SubSeq(rule_str, i + Len(<<"{","a","l","l">>), Len(rule_str))
        j == Find(rest, <<"}">>)
        body == SubSeq(rest, 1, j - 1)
        lead == {k \in 1..Len(body) : \A m \in 1..k : body[m] \in Whitespace}
    IN  IF i = 0 THEN NoMatch
        ELSE IF j = 0 THEN NoMatch
        ELSE [found |-> TRUE,
              whole |-> SubSeq(rule_str, i, i + Len(<<"{","a","l","l">>) + j - 1),
              content |-> SubSeq(body, Cardinality(lead) + 1, Len(body))]

RECURSIVE ClauseKeywords(_, _, _)
\* the loop over content.split(): the last "filter=" / "exclude=" part wins
ClauseKeywords(parts, filters, excludes) ==
    IF parts = <<>> THEN [filters |-> filters, excludes |-> excludes]
    ELSE LET p == Head(parts)
             f == IF StartsWith(p, <<"f","i","l","t","e","r","=">>)
                  THEN Split(Replace(p, <<"f","i","l","t","e","r","=">>, <<>>), <<",">>) ELSE filters
             e == IF StartsWith(p, <<"e","x","c","l","u","d","e","=">>)
                  THEN Split(Replace(p, <<"e","x","c","l","u","d","e","=">>, <<>>), <<",">>) ELSE excludes
         IN  ClauseKeywords(Tail(parts), f, e)

\* any(kw in node for kw in keywords if kw)
AnyKeywordIn(keywords, node) ==
    \E i \in 1..Len(keywords) : keywords[i] # <<>> /\ Contains(node, keywords[i])

\* the exclude test dropped: a filter match alone keeps the node
FilterKeeps_FilterOnly(kw, node) ==
    kw.filters = <<>> \/ AnyKeywordIn(kw.filters, node)

\* the body of the loop over node_names: whether the node is appended to res
FilterKeeps(kw, node) ==
    /\ ~AnyKeywordIn(kw.excludes, node)
    /\ (kw.filters # <<>> => AnyKeywordIn(kw.filters, node))

\* filter_node_list(rule_str, node_names)
filter_node_list(rule_str, node_names) ==
    LET Select(kw) ==
            LET Keep(node) == FilterKeeps(kw, node)
            IN  SelectSeq(node_names, Keep)
        Matched(match) ==
            IF ~match.found THEN node_names
            ELSE Select(ClauseKeywords(SplitWhitespace(match.content), <<>>, <<>>))
    IN  Matched(ClauseMatch(rule_str))

(***************************************************************************)
(* Ordered dict (insertion order kept, assignment to a present key keeps   *)
(* its place): a sequence of <<key, value>>                                *)
(***************************************************************************)
DictKeys(d) == [i \in 1..Len(d) |-> d[i][1]]

DictHas(d, k) == \E i \in 1..Len(d) : d[i][1] = k

DictValue(d, k) == d[CHOOSE i \in 1..Len(d) : d[i][1] = k][2]

\* d[k] = v
DictSet(d, k, v) ==
    IF DictHas(d, k)
    THEN [i \in 1..Len(d) |-> IF d[i][1] = k THEN <<k, v>> ELSE d[i]]
    ELSE Append(d, <<k, v>>)

RECURSIVE DictUpdate(_, _)
\* d.update(other)
DictUpdate(d, other) ==
    IF other = <<>> THEN d
    ELSE DictUpdate(DictSet(d, other[1][1], other[1][2]), Tail(other))

(***************************************************************************)
(* Target specialization of the group rules                                *)
(***************************************************************************)

\* target_suffix = f"_{target}".lower()
TargetSuffix(t) == Lower(<<"_">> \o t)

\* other_suffix: "_clash" for the target surge, "_surge" for the target clash
OtherSuffix(t) == <<"_">> \o (IF t = <<"s","u","r","g","e">> THEN <<"c","l","a","s","h">> ELSE <<"s","u","r","g","e">>)

RECURSIVE BaseGroups(_, _, _)
\* first loop: the rules that carry neither suffix
BaseGroups(raw_groups, t, final_groups) ==
    IF raw_groups = <<>> THEN final_groups
    ELSE LET k == raw_groups[1][1]
             v == raw_groups[1][2]
             skip == \/ EndsWith(Lower(k), TargetSuffix(t))
                     \/ EndsWith(Lower(k), OtherSuffix(t))
         IN  BaseGroups(Tail(raw_groups), t,
                        IF skip THEN final_groups ELSE DictSet(final_groups, k, v))

\* the override stored under the suffixed name it was declared with
OverrideName_KeepSuffix(k, t) == k

\* real_name = k[:-len(target_suffix)]
OverrideName(k, t) == SubSeq(k, 1, Len(k) - Len(TargetSuffix(t)))

RECURSIVE OverrideGroups(_, _, _)
\* second loop: the rules of the active target, under their base name
OverrideGroups(raw_groups, t, final_groups) ==
    IF raw_groups = <<>> THEN final_groups
    ELSE LET k == raw_groups[1][1]
             v == raw_groups[1][2]
         IN  OverrideGroups(Tail(raw_groups), t,
                IF EndsWith(Lower(k), TargetSuffix(t))
                THEN DictSet(final_groups, OverrideName(k, t), v)
                ELSE final_groups)

\* final_groups of process_surge_config / process_clash_config
ResolveGroups(raw_groups, t) ==
    OverrideGroups(raw_groups, t, BaseGroups(raw_groups, t, <<>>))

(***************************************************************************)
(* Source format parser: the text dialect                                  *)
(***************************************************************************)

\* line.startswith(("#", "//", ";"))
IsComment(line) ==
    \/ StartsWith(line, <<"#">>)
    \/ StartsWith(line, <<"/","/">>)
    \/ StartsWith(line, <<";">>)

RECURSIVE ScanLines(_, _, _)
\* the loop over the lines of a source: the stripped lines that reach the
\* parse of "name = detail"
ScanLines(lines, in_proxy_section, has_proxy_section) ==
    IF lines = <<>> THEN <<>>
    ELSE LET line == Strip(Head(lines))
             rest == Tail(lines)
         IN  IF line = <<>>
             THEN ScanLines(rest, in_proxy_section, has_proxy_section)
             ELSE IF Lower(line) = <<"[","p","r","o","x","y","]">>
             THEN ScanLines(rest, TRUE, has_proxy_section)
             ELSE IF StartsWith(line, <<"[">>)
             THEN ScanLines(rest, FALSE, has_proxy_section)
             ELSE IF has_proxy_section /\ ~in_proxy_section
             THEN ScanLines(rest, in_proxy_section, has_proxy_section)
             ELSE IF Contains(line, <<"=">>) /\ ~IsComment(line)
             THEN <<line>> \o ScanLines(rest, in_proxy_section, has_proxy_section)
             ELSE ScanLines(rest, in_proxy_section, has_proxy_section)

\* the candidate node lines of a text
CandidateLines(text_content) ==
    LET lines == Split(text_content, <<"\n">>)
        has_proxy_section ==
            \E i \in 1..Len(lines) : Lower(Strip(lines[i])) = <<"[","p","r","o","x","y","]">>
    IN  ScanLines(lines, FALSE, has_proxy_section)

\* name, detail and d_parts of a candidate line
LineRecord(line) ==
    LET parts == SplitOnce(line, <<"=">>)
        detail == Strip(parts[2])
    IN  [name |-> Strip(parts[1]),
         detail |-> detail,
         d_parts |-> MapSeq(Split(detail, <<",">>), Strip)]

\* if len(d_parts) < 3: continue
WellFormed(rec) == Len(rec.d_parts) >= 3

\* the raw node records of a text, in the order of its lines
TextRecords(text_content) ==
    SelectSeq(MapSeq(CandidateLines(text_content), LineRecord), WellFormed)

(***************************************************************************)
(* Aggregation: fingerprint, exclusion, naming                             *)
(***************************************************************************)
\* fingerprint = f"{p_type}|{p_server}|{p_port}"
Fingerprint(p_type, p_server, p_port) ==
    p_type \o <<"|">> \o p_server \o <<"|">> \o p_port

\* any(k in name for k in exclude_keys)
Excluded(exclude_keys, name) ==
    \E i \in 1..Len(exclude_keys) : Contains(name, exclude_keys[i])

\* f"{prefix} {name}".strip() if prefix else name
FinalName(prefix, name) ==
    IF prefix # <<>> THEN Strip(prefix \o <<" ">> \o name) ELSE name

\* dict.get(key, default) of a mapping with str keys
Get(d, key, default) == IF key \in DOMAIN d THEN d[key] ELSE default

\* the locals of one run
NewRun == [renamer |-> EmptyMap,
           seen_fingerprints |-> {},
           seen_names |-> {},
           all_proxies |-> <<>>]

\* process_surge_config, one text record: the fingerprint is recorded first,
\* then the exclusion applies, then the Renamer names the node
SurgeAddText(st, rec, prefix, exclude_keys) ==
    LET fingerprint == Fingerprint(Lower(rec.d_parts[1]), rec.d_parts[2], rec.d_parts[3])
        seen == [st EXCEPT !.seen_fingerprints = @ \cup {fingerprint}]
        got == GetName(st.renamer, rec.name)
        final_name == FinalName(prefix, got.name)
    IN  IF fingerprint \in st.seen_fingerprints THEN st
        ELSE IF Excluded(exclude_keys, rec.name) THEN seen
        ELSE [seen EXCEPT !.renamer = got.counters,
                          !.all_proxies = DictSet(@, final_name,
                                                  final_name \o <<" ","="," ">> \o rec.detail)]

RECURSIVE SurgeAddTextAll(_, _, _, _)
SurgeAddTextAll(st, recs, prefix, exclude_keys) ==
    IF recs = <<>> THEN st
    ELSE SurgeAddTextAll(SurgeAddText(st, Head(recs), prefix, exclude_keys),
                         Tail(recs), prefix, exclude_keys)

(***************************************************************************)
(* Protocol codec: structured record -> text line (process_surge_config)   *)
(***************************************************************************)

\* ", key=value"
Param(key, value) == <<","," ">> \o key \o <<"=">> \o value

\* "true" if flag else "false"
BoolText(flag) == IF flag THEN <<"t","r","u","e">> ELSE <<"f","a","l","s","e">>

\* the part of surge_line after "name = ", or "" for a type without a rendering
SurgeDetail(proxy, p_type, p_server, p_port) ==
    LET head == p_type \o <<","," ">> \o p_server \o <<","," ">> \o p_port
    IN  IF p_type = <<"s","s">>
        THEN head \o Param(<<"e","n","c","r","y","p","t","-","m","e","t","h","o","d">>, Get(proxy, "cipher", <<>>))
                  \o Param(<<"p","a","s","s","w","o","r","d">>, Get(proxy, "password", <<>>))
        ELSE IF p_type = <<"v","m","e","s","s">>
        THEN head \o Param(<<"u","s","e","r","n","a","m","e">>, Get(proxy, "uuid", <<>>))
                  \o Param(<<"t","l","s">>, BoolText(Get(proxy, "tls", FALSE)))
        ELSE IF p_type = <<"t","r","o","j","a","n">>
        THEN head \o Param(<<"p","a","s","s","w","o","r","d">>, Get(proxy, "password", <<>>))
                  \o Param(<<"s","k","i","p","-","c","e","r","t","-","v","e","r","i","f","y">>,
                           BoolText(Get(proxy, "skip-cert-verify", FALSE)))
                  \o (IF Get(proxy, "sni", <<>>) # <<>>
                      THEN Param(<<"s","n","i">>, Get(proxy, "sni", <<>>)) ELSE <<>>)
        ELSE IF p_type \in {<<"h","t","t","p">>, <<"s","o","c","k","s","5">>}
        THEN head \o Param(<<"u","s","e","r","n","a","m","e">>, Get(proxy, "username", <<>>))
                  \o Param(<<"p","a","s","s","w","o","r","d">>, Get(proxy, "password", <<>>))
        ELSE IF p_type = <<"s","n","e","l","l">>
        THEN head \o Param(<<"p","s","k">>, Get(proxy, "psk", <<>>))
                  \o Param(<<"v","e","r","s","i","o","n">>, Get(proxy, "version", <<"2">>))
        ELSE <<>>

\* process_surge_config, one entry of a structured proxies list
SurgeAddYaml(st, proxy, prefix, exclude_keys) ==
    LET p_name == Get(proxy, "name", <<>>)
        p_type == Lower(Get(proxy, "type", <<>>))
        p_server == Get(proxy, "server", <<>>)
        p_port == Get(proxy, "port", <<>>)
        fingerprint == Fingerprint(p_type, p_server, p_port)
        seen == [st EXCEPT !.seen_fingerprints = @ \cup {fingerprint}]
        got == GetName(st.renamer, p_name)
        final_name == FinalName(prefix, got.name)
        detail == SurgeDetail(proxy, p_type, p_server, p_port)
        named == [seen EXCEPT !.renamer = got.counters]
    IN  IF p_name = <<>> \/ p_server = <<>> \/ p_port = <<>> THEN st
        ELSE IF fingerprint \in st.seen_fingerprints THEN st
        ELSE IF Excluded(exclude_keys, p_name) THEN seen
        ELSE IF detail = <<>> THEN named
        ELSE [named EXCEPT !.all_proxies =
                  DictSet(@, final_name, final_name \o <<" ","="," ">> \o detail)]

RECURSIVE SurgeAddYamlAll(_, _, _, _)
\* the loop over clash_data['proxies']; an entry that is no mapping raises,
\* and the except around the loop ends it
SurgeAddYamlAll(st, proxies, prefix, exclude_keys) ==
    IF proxies = <<>> THEN st
    ELSE IF ~Head(proxies).mapping THEN st
    ELSE SurgeAddYamlAll(SurgeAddYaml(st, Head(proxies).fields, prefix, exclude_keys),
                         Tail(proxies), prefix, exclude_keys)

(***************************************************************************)
(* Protocol codec: text record -> structured record (process_clash_config) *)
(***************************************************************************)

RECURSIVE KvParams(_, _)
\* kv_params of the items d_parts[3:]: "k=v" items, the last of a key wins
KvParams(items, kv) ==
    IF items = <<>> THEN kv
    ELSE LET item == Head(items)
             pair == SplitOnce(item, <<"=">>)
         IN  KvParams(Tail(items),
                      IF Contains(item, <<"=">>)
                      THEN DictSet(kv, Strip(pair[1]), Strip(pair[2])) ELSE kv)

\* kv_params.get(key, default)
KvGet(kv, key, default) == IF DictHas(kv, key) THEN DictValue(kv, key) ELSE default

\* int(v) succeeds: digits only (signs and underscores are not modelled)
IsInt(v) == v # <<>> /\ \A i \in 1..Len(v) : v[i] \in Range(DigitSeq)

RECURSIVE ToInt(_)
\* int(v)
ToInt(v) ==
    IF v = <<>> THEN 0
    ELSE 10 * ToInt(SubSeq(v, 1, Len(v) - 1))
         + ((CHOOSE d \in 1..10 : DigitSeq[d] = v[Len(v)]) - 1)

\* proxy_obj[key] = kv_params[src] if src in kv_params
Optional(kv, src, key) ==
    IF DictHas(kv, src) THEN (key :> DictValue(kv, src)) ELSE EmptyMap

\* proxy_obj[key] = True if kv_params.get(src) == 'true'
OptionalFlag(kv, src, key) ==
    IF KvGet(kv, src, <<>>) = <<"t","r","u","e">> THEN (key :> TRUE) ELSE EmptyMap

\* proxy_obj[key] = int(kv_params[src]), dropped when int() raises
OptionalInt(kv, src, key) ==
    IF DictHas(kv, src) /\ IsInt(DictValue(kv, src))
    THEN (key :> ToInt(DictValue(kv, src))) ELSE EmptyMap

\* the four fields every proxy_obj starts with
BaseObject(rec) ==
    [name |-> rec.name, type |-> Lower(rec.d_parts[1]),
     server |-> rec.d_parts[2], port |-> rec.d_parts[3]]

\* proxy_obj of a text record of a source
ToClashObject(rec) ==
    LET p_type == Lower(rec.d_parts[1])
        kv == KvParams(SubSeq(rec.d_parts, 4, Len(rec.d_parts)), <<>>)
        base == BaseObject(rec)
    IN  IF p_type = <<"s","s">>
        THEN ("cipher" :> KvGet(kv, <<"e","n","c","r","y","p","t","-","m","e","t","h","o","d">>, <<>>))
             @@ ("password" :> KvGet(kv, <<"p","a","s","s","w","o","r","d">>, <<>>)) @@ base
        ELSE IF p_type = <<"v","m","e","s","s">>
        THEN ("uuid" :> KvGet(kv, <<"u","s","e","r","n","a","m","e">>, <<>>)) @@ ("cipher" :> <<"a","u","t","o">>)
             @@ ("tls" :> (KvGet(kv, <<"t","l","s">>, <<"f","a","l","s","e">>) = <<"t","r","u","e">>)) @@ base
        ELSE IF p_type = <<"t","r","o","j","a","n">>
        THEN ("password" :> KvGet(kv, <<"p","a","s","s","w","o","r","d">>, <<>>))
             @@ Optional(kv, <<"s","n","i">>, "sni")
             @@ OptionalFlag(kv, <<"s","k","i","p","-","c","e","r","t","-","v","e","r","i","f","y">>, "skip-cert-verify") @@ base
        ELSE IF p_type \in {<<"h","t","t","p">>, <<"s","o","c","k","s","5">>}
        THEN ("username" :> KvGet(kv, <<"u","s","e","r","n","a","m","e">>, <<>>))
             @@ ("password" :> KvGet(kv, <<"p","a","s","s","w","o","r","d">>, <<>>))
             @@ Optional(kv, <<"u","n","d","e","r","l","y","i","n","g","-","p","r","o","x","y">>, "dialer-proxy") @@ base
        ELSE IF p_type = <<"s","n","e","l","l">>
        THEN ("psk" :> KvGet(kv, <<"p","s","k">>, <<>>))
             @@ ("version" :> KvGet(kv, <<"v","e","r","s","i","o","n">>, <<"2">>)) @@ base
        ELSE IF p_type = <<"h","y","s","t","e","r","i","a","2">>
        THEN ("password" :> KvGet(kv, <<"p","a","s","s","w","o","r","d">>, <<>>))
             @@ Optional(kv, <<"s","n","i">>, "sni")
             @@ OptionalFlag(kv, <<"s","k","i","p","-","c","e","r","t","-","v","e","r","i","f","y">>, "skip-cert-verify")
             @@ (IF DictHas(kv, <<"a","l","p","n">>)
                 THEN ("alpn" :> MapSeq(Split(DictValue(kv, <<"a","l","p","n">>), <<",">>), Strip))
                 ELSE EmptyMap)
             @@ Optional(kv, <<"o","b","f","s">>, "obfs")
             @@ Optional(kv, <<"o","b","f","s","-","p","a","s","s","w","o","r","d">>, "obfs-password")
             @@ OptionalInt(kv, <<"d","o","w","n","l","o","a","d","-","b","a","n","d","w","i","d","t","h">>, "down")
             @@ OptionalInt(kv, <<"u","p","l","o","a","d","-","b","a","n","d","w","i","d","t","h">>, "up")
             @@ OptionalFlag(kv, <<"u","d","p","-","r","e","l","a","y">>, "udp")
             @@ OptionalFlag(kv, <<"t","f","o">>, "fast-open") @@ base
        ELSE base

\* proxy_obj of a line of the manual list: only ss, http and socks5 get fields
ManualClashObject(rec) ==
    LET p_type == Lower(rec.d_parts[1])
        kv == KvParams(SubSeq(rec.d_parts, 4, Len(rec.d_parts)), <<>>)
        base == BaseObject(rec)
    IN  IF p_type = <<"s","s">>
        THEN ("cipher" :> KvGet(kv, <<"e","n","c","r","y","p","t","-","m","e","t","h","o","d">>, <<>>))
             @@ ("password" :> KvGet(kv, <<"p","a","s","s","w","o","r","d">>, <<>>)) @@ base
        ELSE IF p_type \in {<<"h","t","t","p">>, <<"s","o","c","k","s","5">>}
        THEN ("username" :> KvGet(kv, <<"u","s","e","r","n","a","m","e">>, <<>>))
             @@ ("password" :> KvGet(kv, <<"p","a","s","s","w","o","r","d">>, <<>>))
             @@ Optional(kv, <<"u","n","d","e","r","l","y","i","n","g","-","p","r","o","x","y">>, "dialer-proxy") @@ base
        ELSE base

(***************************************************************************)
(* process_clash_config.add_proxy                                          *)
(***************************************************************************)
\* the safeguard loop: p_name, or p_name_2, p_name_3, ... with the lowest
\* suffix not in seen_names
UniqueName(p_name, names) ==
    IF p_name \notin names THEN p_name
    ELSE LET free == {idx \in 2..(Cardinality(names) + 2) :
                         (p_name \o <<"_">> \o Decimal(idx)) \notin names}
         IN  p_name \o <<"_">> \o Decimal(CHOOSE idx \in free : \A j \in free : idx <= j)

\* add_proxy(p_data, p_prefix, skip_rename): exclusion, then the Renamer,
\* then the fingerprint, then the name safeguard
AddProxy(st, p_data, p_prefix, skip_rename, exclude_keys) ==
    LET raw_name == Get(p_data, "name", <<>>)
        got == IF skip_rename THEN [counters |-> st.renamer, name |-> raw_name]
               ELSE GetName(st.renamer, raw_name)
        p_name == FinalName(p_prefix, got.name)
        p_type == Get(p_data, "type", <<>>)
        p_server == Get(p_data, "server", <<>>)
        p_port == Get(p_data, "port", <<>>)
        has_fingerprint == p_type # <<>> /\ p_server # <<>> /\ p_port # <<>>
        fingerprint == Fingerprint(p_type, p_server, p_port)
        named == [st EXCEPT !.renamer = got.counters]
        final_name == UniqueName(p_name, st.seen_names)
    IN  IF raw_name = <<>> THEN st
        ELSE IF Excluded(exclude_keys, raw_name) THEN st
        ELSE IF has_fingerprint /\ fingerprint \in st.seen_fingerprints THEN named
        ELSE [named EXCEPT
                !.seen_fingerprints = IF has_fingerprint THEN @ \cup {fingerprint} ELSE @,
                !.seen_names = @ \cup {final_name},
                !.all_proxies = Append(@, ("name" :> final_name) @@ p_data)]

RECURSIVE ClashAddYamlAll(_, _, _, _)
\* the loop over data['proxies']; an entry that is no mapping raises in
\* add_proxy, and the except around the loop ends it
ClashAddYamlAll(st, proxies, prefix, exclude_keys) ==
    IF proxies = <<>> THEN st
    ELSE IF ~Head(proxies).mapping THEN st
    ELSE ClashAddYamlAll(AddProxy(st, Head(proxies).fields, prefix, FALSE, exclude_keys),
                         Tail(proxies), prefix, exclude_keys)

RECURSIVE ClashAddTextAll(_, _, _, _)
\* the loop over the lines of a text source
ClashAddTextAll(st, recs, prefix, exclude_keys) ==
    IF recs = <<>> THEN st
    ELSE ClashAddTextAll(AddProxy(st, ToClashObject(Head(recs)), prefix, FALSE, exclude_keys),
                         Tail(recs), prefix, exclude_keys)

(***************************************************************************)
(* The manual list (config/manual.ini)                                     *)
(***************************************************************************)
\* not line or line.startswith(("#", ";", "//", "["))
ManualSkipped(line) == line = <<>> \/ IsComment(line) \/ StartsWith(line, <<"[">>)

\* the stripped lines of the manual list that hold "name = detail"
ManualLines(lines) ==
    LET Entry(line) == ~ManualSkipped(line) /\ Contains(line, <<"=">>)
    IN  SelectSeq(MapSeq(lines, Strip), Entry)

\* all_proxies[m_name.strip()] = f"{m_name.strip()} = {m_detail.strip()}"
SurgeAddManual(all, line) ==
    LET rec == LineRecord(line)
    IN  DictSet(all, rec.name, rec.name \o <<" ","="," ">> \o rec.detail)

RECURSIVE SurgeManual(_, _)
\* process_surge_config: the manual lines are stored without any check
SurgeManual(all, lines) ==
    IF lines = <<>> THEN all
    ELSE SurgeManual(SurgeAddManual(all, Head(lines)), Tail(lines))

RECURSIVE ClashManual(_, _, _)
\* process_clash_config: the manual lines go through add_proxy(skip_rename=True)
ClashManual(st, lines, exclude_keys) ==
    IF lines = <<>> THEN st
    ELSE LET rec == LineRecord(Head(lines))
         IN  ClashManual(IF WellFormed(rec)
                         THEN AddProxy(st, ManualClashObject(rec), <<>>, TRUE, exclude_keys)
                         ELSE st,
                         Tail(lines), exclude_keys)

(***************************************************************************)
(* Chain synthesis                                                         *)
(***************************************************************************)

\* ['JP ', 'KR ', 'TW ']
ChainRegions == {<<"J","P"," ">>, <<"K","R"," ">>, <<"T","W"," ">>}

\* an entry test that knows the region JP only
IsChainEntry_JapanOnly(node_name) ==
    node_name # <<"E","X","I","T">> /\ Contains(node_name, <<"J","P"," ">>)

\* node_name != 'EXIT' and any(region in node_name for region in [...])
IsChainEntry(node_name) ==
    node_name # <<"E","X","I","T">> /\ \E region \in ChainRegions : Contains(node_name, region)

\* the chain line of the text dialect
SurgeChainLine(us_ip_detail, node_name) ==
    (node_name \o <<" ","C","h","a","i","n">>) \o <<" ","="," ">> \o us_ip_detail
    \o <<","," ">> \o <<"u","n","d","e","r","l","y","i","n","g","-","p","r","o","x","y">> \o <<"=">> \o node_name

RECURSIVE SurgeChainProxies(_, _, _)
\* chain_proxies, built in the order of all_proxies.keys()
SurgeChainProxies(names, us_ip_detail, chain_proxies) ==
    IF names = <<>> THEN chain_proxies
    ELSE LET node_name == Head(names)
         IN  SurgeChainProxies(Tail(names), us_ip_detail,
                IF IsChainEntry(node_name)
                THEN DictSet(chain_proxies, node_name \o <<" ","C","h","a","i","n">>,
                             SurgeChainLine(us_ip_detail, node_name))
                ELSE chain_proxies)

\* process_surge_config: all_proxies after the chain nodes are merged in
SurgeChain(all) ==
    IF ~DictHas(all, <<"E","X","I","T">>) THEN all
    ELSE LET us_ip_line == DictValue(all, <<"E","X","I","T">>)
             us_ip_detail == Strip(SplitOnce(us_ip_line, <<"=">>)[2])
         IN  IF ~Contains(us_ip_line, <<"=">>) THEN all
             ELSE DictUpdate(all, SurgeChainProxies(DictKeys(all), us_ip_detail, <<>>))

\* chain_proxy: a deep copy of EXIT under the chain name, dialing through node_name
ClashChainProxy(us_ip_proxy, node_name) ==
    ("name" :> (node_name \o <<" ","C","h","a","i","n">>)) @@ ("dialer-proxy" :> node_name) @@ us_ip_proxy

\* process_clash_config: the locals after the chain nodes are appended
ClashChain(st) ==
    LET all == st.all_proxies
        exits == {i \in 1..Len(all) : Get(all[i], "name", <<>>) = <<"E","X","I","T">>}
        us_ip_proxy == all[CHOOSE i \in exits : \A j \in exits : i <= j]
        Entry(p) == IsChainEntry(Get(p, "name", <<>>))
        Chained(p) == ClashChainProxy(us_ip_proxy, Get(p, "name", <<>>))
        chain_proxies == MapSeq(SelectSeq(all, Entry), Chained)
    IN  IF exits = {} THEN st
        ELSE [st EXCEPT !.seen_names = @ \cup {chain_proxies[i]["name"] :
                                                  i \in 1..Len(chain_proxies)},
                        !.all_proxies = @ \o chain_proxies]

(***************************************************************************)
(* Ordering of str values (code point order)                               *)
(***************************************************************************)
\* the characters of the modelled texts in ascending code point order
CharOrder == <<"\t", "\n", "\r", " ", "#", ",", "-", ".", "/">> \o DigitSeq
             \o <<":", ";", "=">> \o UpperSeq \o <<"[", "]", "_">> \o LowerSeq
             \o <<"{", "|", "}", "u65E5", "u672C">>

Ord(c) == CHOOSE i \in 1..Len(CharOrder) : CharOrder[i] = c

\* a < b for str
StrLess(a, b) ==
    \E i \in 1..(Len(a) + 1) :
        /\ i <= Len(b)
        /\ SubSeq(a, 1, i - 1) = SubSeq(b, 1, i - 1)
        /\ (i = Len(a) + 1 \/ Ord(a[i]) < Ord(b[i]))

\* sorted(...) of a set of distinct items under a strict total order: the item
\* at place i has i - 1 items before it
SortedBy(items, Less(_, _)) ==
    [i \in 1..Cardinality(items) |->
        CHOOSE x \in items : Cardinality({y \in items : Less(y, x)}) = i - 1]

\* sorted(all_proxies.keys())
SortedNames(names) == SortedBy(Range(names), StrLess)

\* the key (x == "", x) of sorted_prefixes, then the name within a prefix group
NodeOrderLess(a, b) ==
    LET pa == BracketPrefix(a)
        pb == BracketPrefix(b)
    IN  IF pa = pb THEN StrLess(a, b)
        ELSE IF pa = <<>> THEN FALSE
        ELSE IF pb = <<>> THEN TRUE
        ELSE StrLess(pa, pb)

\* the node names in the order of proxy_section
SectionOrder(names) == SortedBy(Range(names), NodeOrderLess)

(***************************************************************************)
(* Group assembly and rendering                                            *)
(***************************************************************************)

\* final_rule: the clause replaced by the matching names, or by DIRECT
SurgeGroupRule(g_rule, sorted_node_names) ==
    LET match == ClauseMatch(g_rule)
        filtered_list == filter_node_list(g_rule, sorted_node_names)
        nodes_str == IF filtered_list # <<>> THEN Join(filtered_list, <<","," ">>) ELSE <<"D","I","R","E","C","T">>
    IN  IF match.found THEN Replace(g_rule, match.whole, nodes_str) ELSE g_rule

\* group_section of process_surge_config
SurgeGroupSection(final_groups, sorted_node_names) ==
    LET GroupLine(g) == g[1] \o <<" ","="," ">> \o SurgeGroupRule(g[2], sorted_node_names)
    IN  <<<<"[","P","r","o","x","y"," ","G","r","o","u","p","]">>>> \o MapSeq(final_groups, GroupLine)

\* proxy_section of process_surge_config
SurgeProxySection(all) ==
    LET NodeLine(node_name) == DictValue(all, node_name)
    IN  <<<<"[","P","r","o","x","y","]">>>> \o MapSeq(SectionOrder(DictKeys(all)), NodeLine)

\* the text returned by process_surge_config
SurgeRender(template_body, all, raw_groups, has_groups, t) ==
    LET group_section ==
            IF has_groups
            THEN SurgeGroupSection(ResolveGroups(raw_groups, t), SortedNames(DictKeys(all)))
            ELSE <<<<"[","P","r","o","x","y"," ","G","r","o","u","p","]">>>>
    IN  template_body \o <<"\n", "\n">> \o Join(SurgeProxySection(all), <<"\n">>)
        \o <<"\n", "\n">> \o Join(group_section, <<"\n">>)

\* the parameters url / interval / tolerance of a structured group
ClashGroupParams(remaining_parts) ==
    LET Value(key) ==
            LET hits == {i \in 1..Len(remaining_parts) :
                            /\ Contains(remaining_parts[i], <<"=">>)
                            /\ Strip(SplitOnce(remaining_parts[i], <<"=">>)[1]) = key}
                last == CHOOSE i \in hits : \A j \in hits : i >= j
            IN  IF hits = {} THEN [set |-> FALSE, v |-> <<>>]
                ELSE [set |-> TRUE, v |-> Strip(SplitOnce(remaining_parts[last], <<"=">>)[2])]
        IntHits(key) ==
            {i \in 1..Len(remaining_parts) :
                /\ Contains(remaining_parts[i], <<"=">>)
                /\ Strip(SplitOnce(remaining_parts[i], <<"=">>)[1]) = key
                /\ IsInt(Strip(SplitOnce(remaining_parts[i], <<"=">>)[2]))}
        IntValue(key) ==
            LET last == CHOOSE i \in IntHits(key) : \A j \in IntHits(key) : i >= j
            IN  ToInt(Strip(SplitOnce(remaining_parts[last], <<"=">>)[2]))
    IN  (IF Value(<<"u","r","l">>).set THEN ("url" :> Value(<<"u","r","l">>).v) ELSE EmptyMap)
        @@ (IF IntHits(<<"i","n","t","e","r","v","a","l">>) # {} THEN ("interval" :> IntValue(<<"i","n","t","e","r","v","a","l">>)) ELSE EmptyMap)
        @@ (IF IntHits(<<"t","o","l","e","r","a","n","c","e">>) # {} THEN ("tolerance" :> IntValue(<<"t","o","l","e","r","a","n","c","e">>)) ELSE EmptyMap)

\* if not group_proxies: group_proxies.append("DIRECT")
ClashGroupProxies(group_proxies) ==
    IF group_proxies = <<>> THEN <<<<"D","I","R","E","C","T">>>> ELSE group_proxies

\* group_obj of process_clash_config for one rule
ClashGroup(g_name, g_rule, all_current_node_names) ==
    LET match == ClauseMatch(g_rule)
        dynamic_nodes == IF match.found
                         THEN filter_node_list(g_rule, all_current_node_names) ELSE <<>>
        g_rule_cleaned == IF match.found THEN Replace(g_rule, match.whole, <<>>) ELSE g_rule
        NonEmpty(p) == p # <<>>
        parts == SelectSeq(MapSeq(Split(g_rule_cleaned, <<",">>), Strip), NonEmpty)
        remaining_parts == IF parts # <<>> THEN Tail(parts) ELSE <<>>
        Static(p) == ~Contains(p, <<"=">>)
    IN  ("name" :> g_name)
        @@ ("type" :> (IF parts # <<>> THEN parts[1] ELSE <<"s","e","l","e","c","t">>))
        @@ ClashGroupParams(remaining_parts)
        @@ ("proxies" :> ClashGroupProxies(dynamic_nodes \o SelectSeq(remaining_parts, Static)))

\* the data handed to yaml.dump by process_clash_config
ClashRender(clash_data, all, raw_groups, has_groups, t) ==
    LET names == [i \in 1..Len(all) |-> all[i]["name"]]
        Group(g) == ClashGroup(g[1], g[2], names)
    IN  ("proxies" :> all)
        @@ ("proxy-groups" :> (IF has_groups
                               THEN MapSeq(ResolveGroups(raw_groups, t), Group) ELSE <<>>))
        @@ clash_data

(***************************************************************************)
(* Fetching: fetch_content_cached; library calls on the modelled texts     *)
(***************************************************************************)
CACHE_TTL == 180

\* fetch_content_cached that takes an entry whose expiry is the present
\* moment for a hit
FetchContentCached_HitAtExpiry(cache, t, url, resp) ==
    LET fresh == url \in DOMAIN cache /\ cache[url].expires_at >= t
        kept == [u \in (DOMAIN cache) \ {url} |-> cache[u]]
    IN  IF fresh
        THEN [cache |-> cache, content |-> cache[url].content, status |-> 200,
              requests |-> 0]
        ELSE IF resp.status = 200
        THEN [cache |-> (url :> [content |-> resp.text, expires_at |-> t + CACHE_TTL])
                        @@ kept,
              content |-> resp.text, status |-> 200, requests |-> 1]
        ELSE [cache |-> kept, content |-> <<>>, status |-> resp.status, requests |-> 1]

\* fetch_content_cached(url) at time t, resp being what requests.get answers
\* if it is called (status 500 stands for an exception as well); requests
\* counts the calls of requests.get, None is the empty content
FetchContentCached(cache, t, url, resp) ==
    LET fresh == url \in DOMAIN cache /\ cache[url].expires_at > t
        kept == [u \in (DOMAIN cache) \ {url} |-> cache[u]]
    IN  IF fresh
        THEN [cache |-> cache, content |-> cache[url].content, status |-> 200,
              requests |-> 0]
        ELSE IF resp.status = 200
        THEN [cache |-> (url :> [content |-> resp.text, expires_at |-> t + CACHE_TTL])
                        @@ kept,
              content |-> resp.text, status |-> 200, requests |-> 1]
        ELSE [cache |-> kept, content |-> <<>>, status |-> resp.status, requests |-> 1]

\* the base64 alphabet, the character of the value v at place v + 1
Base64Alphabet ==
    <<"A","B","C","D","E","F","G","H","I","J","K","L","M","N","O","P","Q",
      "R","S","T","U","V","W","X","Y","Z","a","b","c","d","e","f","g","h",
      "i","j","k","l","m","n","o","p","q","r","s","t","u","v","w","x","y",
      "z","0","1","2","3","4","5","6","7","8","9","+","/">>

\* the characters of the code points 32 to 126, in ascending order (the
\* grave accent, code point 96, is the element "u0060")
AsciiPrintable ==
    <<" ","!","\"","#","$","%","&","'","(",")","*","+",",","-",".","/","0",
      "1","2","3","4","5","6","7","8","9",":",";","<","=",">","?","@","A",
      "B","C","D","E","F","G","H","I","J","K","L","M","N","O","P","Q","R",
      "S","T","U","V","W","X","Y","Z","[","\\","]","^","_","u0060","a","b","c",
      "d","e","f","g","h","i","j","k","l","m","n","o","p","q","r","s","t",
      "u","v","w","x","y","z","{","|","}","~">>

RECURSIVE Base64Scan(_, _, _, _, _)
\* binascii.a2b_base64 from the first character of text on: a character
\* outside the alphabet is skipped, "=" is skipped unless it completes a
\* padding, which ends the input; a quad left open at the end raises
Base64Scan(text, quad_pos, leftchar, pads, bin_data) ==
    IF text = <<>> THEN [ok |-> quad_pos = 0, bytes |-> bin_data]
    ELSE IF Head(text) = "="
    THEN IF quad_pos >= 2 /\ quad_pos + pads + 1 >= 4
         THEN [ok |-> TRUE, bytes |-> bin_data]
         ELSE Base64Scan(Tail(text), quad_pos, leftchar,
                         IF quad_pos >= 2 THEN pads + 1 ELSE pads, bin_data)
    ELSE IF Head(text) \notin Range(Base64Alphabet)
    THEN Base64Scan(Tail(text), quad_pos, leftchar, pads, bin_data)
    ELSE LET Step(this_ch) ==
                 IF quad_pos = 0
                 THEN Base64Scan(Tail(text), 1, this_ch, 0, bin_data)
                 ELSE IF quad_pos = 1
                 THEN Base64Scan(Tail(text), 2, this_ch % 16, 0,
                                 Append(bin_data, leftchar * 4 + this_ch \div 16))
                 ELSE IF quad_pos = 2
                 THEN Base64Scan(Tail(text), 3, this_ch % 4, 0,
                                 Append(bin_data, leftchar * 16 + this_ch \div 4))
                 ELSE Base64Scan(Tail(text), 0, 0, 0,
                                 Append(bin_data, leftchar * 64 + this_ch))
         IN  Step((CHOOSE k \in 1..64 : Base64Alphabet[k] = Head(text)) - 1)

\* base64.b64decode(text).decode('utf-8'): the bytes of the scan as
\* characters; a byte above 127 raises in the modelled texts, and a control
\* character other than tab, line feed and carriage return is the element
\* "u" with its code point
Base64Decode(text) ==
    LET Control == <<"u0000","u0001","u0002","u0003","u0004","u0005","u0006",
                     "u0007","u0008","\t","\n","u000B","u000C","\r","u000E",
                     "u000F","u0010","u0011","u0012","u0013","u0014","u0015",
                     "u0016","u0017","u0018","u0019","u001A","u001B","u001C",
                     "u001D","u001E","u001F">>
        Char(byte) ==
            IF byte < 32 THEN Control[byte + 1]
            ELSE IF byte <= 126 THEN AsciiPrintable[byte - 31]
            ELSE "u007F"
        Decoded(scan) ==
            IF scan.ok /\ \A i \in 1..Len(scan.bytes) : scan.bytes[i] < 128
            THEN [ok |-> TRUE, text |-> [i \in 1..Len(scan.bytes) |-> Char(scan.bytes[i])]]
            ELSE [ok |-> FALSE, text |-> <<>>]
    IN  Decoded(Base64Scan(text, 0, 0, 0, <<>>))

\* the encoding normalization: the padded text is kept when the decode raises
\* or the decoded text has no line break
DecodeStep(text_content) ==
    LET missing == Len(text_content) % 4
        padded == IF missing # 0
                  THEN text_content \o [i \in 1..(4 - missing) |-> "="]
                  ELSE text_content
        Replaced(decoded) ==
            IF decoded.ok /\ (Contains(decoded.text, <<"\n">>)
                              \/ Contains(decoded.text, <<"\r">>))
            THEN decoded.text ELSE padded
    IN  IF ~Contains(text_content, <<" ">>) /\ Len(text_content) > 10
        THEN Replaced(Base64Decode(padded))
        ELSE text_content

\* "proxies:\n- {name: Taipei, type: ss, server: d, port: 4}\n"
\*          "- {name: JP-2, type: vmess, server: b, port: 2}\n"
YamlText ==
    <<"p","r","o","x","i","e","s",":","\n",
      "-"," ","{","n","a","m","e",":"," ","T","a","i","p","e","i",","," ",
      "t","y","p","e",":"," ","s","s",","," ","s","e","r","v","e","r",":"," ","d",
      ","," ","p","o","r","t",":"," ","4","}","\n",
      "-"," ","{","n","a","m","e",":"," ","J","P","-","2",","," ",
      "t","y","p","e",":"," ","v","m","e","s","s",","," ","s","e","r","v","e","r",
      ":"," ","b",","," ","p","o","r","t",":"," ","2","}","\n">>

YamlData ==
    << [mapping |-> TRUE,
        fields |-> [name |-> <<"T","a","i","p","e","i">>, type |-> <<"s","s">>,
                    server |-> <<"d">>, port |-> <<"4">>]],
       [mapping |-> TRUE,
        fields |-> [name |-> <<"J","P","-","2">>, type |-> <<"v","m","e","s","s">>,
                    server |-> <<"b">>, port |-> <<"2">>]] >>

\* a proxies list with an entry of a type without a text rendering, an entry
\* without a server, and an entry that is no mapping ("- oops"):
\*   proxies:
\*   - {name: Seoul k, type: trojan, server: k, port: 5}
\*   - {name: Seoul h, type: hysteria2, server: h, port: 6}
\*   - {name: Seoul m, type: ss, server: m, port: 7}
\*   - {name: Seoul n, type: ss, port: 8}
\*   - oops
\*   - {name: Seoul z, type: ss, server: z, port: 9}
YamlText2 ==
    <<"p","r","o","x","i","e","s",":","\n","-"," ","{","n","a","m","e",":"," ","S","e","o",
      "u","l"," ","k",","," ","t","y","p","e",":"," ","t","r","o","j","a","n",","," ","s",
      "e","r","v","e","r",":"," ","k",","," ","p","o","r","t",":"," ","5","}","\n","-"," ",
      "{","n","a","m","e",":"," ","S","e","o","u","l"," ","h",","," ","t","y","p","e",":",
      " ","h","y","s","t","e","r","i","a","2",","," ","s","e","r","v","e","r",":"," ","h",
      ","," ","p","o","r","t",":"," ","6","}","\n","-"," ","{","n","a","m","e",":"," ","S",
      "e","o","u","l"," ","m",","," ","t","y","p","e",":"," ","s","s",","," ","s","e","r",
      "v","e","r",":"," ","m",","," ","p","o","r","t",":"," ","7","}","\n","-"," ","{","n",
      "a","m","e",":"," ","S","e","o","u","l"," ","n",","," ","t","y","p","e",":"," ","s",
      "s",","," ","p","o","r","t",":"," ","8","}","\n","-"," ","o","o","p","s","\n","-"," ",
      "{","n","a","m","e",":"," ","S","e","o","u","l"," ","z",","," ","t","y","p","e",":",
      " ","s","s",","," ","s","e","r","v","e","r",":"," ","z",","," ","p","o","r","t",":",
      " ","9","}","\n">>

YamlData2 ==
    << [mapping |-> TRUE,
        fields |-> [name |-> <<"S","e","o","u","l"," ","k">>,
                    type |-> <<"t","r","o","j","a","n">>,
                    server |-> <<"k">>,
                    port |-> <<"5">>]],
       [mapping |-> TRUE,
        fields |-> [name |-> <<"S","e","o","u","l"," ","h">>,
                    type |-> <<"h","y","s","t","e","r","i","a","2">>,
                    server |-> <<"h">>,
                    port |-> <<"6">>]],
       [mapping |-> TRUE,
        fields |-> [name |-> <<"S","e","o","u","l"," ","m">>,
                    type |-> <<"s","s">>,
                    server |-> <<"m">>,
                    port |-> <<"7">>]],
       [mapping |-> TRUE,
        fields |-> [name |-> <<"S","e","o","u","l"," ","n">>,
                    type |-> <<"s","s">>,
                    port |-> <<"8">>]],
       [mapping |-> FALSE, fields |-> <<>>],
       [mapping |-> TRUE,
        fields |-> [name |-> <<"S","e","o","u","l"," ","z">>,
                    type |-> <<"s","s">>,
                    server |-> <<"z">>,
                    port |-> <<"9">>]] >>

\* yaml.safe_load(text) on the modelled texts: a dict with a proxies list for
\* YamlText and YamlText2; on every other text it raises or yields no dict with 'proxies'
YamlLoad(text) ==
    IF text = YamlText
    THEN [ok |-> TRUE, has_proxies |-> TRUE, is_list |-> TRUE, proxies |-> YamlData]
    ELSE IF text = YamlText2
    THEN [ok |-> TRUE, has_proxies |-> TRUE, is_list |-> TRUE, proxies |-> YamlData2]
    ELSE [ok |-> FALSE, has_proxies |-> FALSE, is_list |-> FALSE, proxies |-> <<>>]

\* "proxies:" in text_content or "Proxy:" in text_content
LooksStructured(text) ==
    Contains(text, <<"p","r","o","x","i","e","s",":">>) \/ Contains(text, <<"P","r","o","x","y",":">>)

\* process_surge_config, one fetched source text
SurgeSource(st, text_content, prefix, exclude_keys) ==
    LET working == DecodeStep(text_content)
        doc == YamlLoad(working)
        is_clash == LooksStructured(working) /\ doc.ok /\ doc.has_proxies
    IN  IF is_clash
        THEN IF doc.is_list THEN SurgeAddYamlAll(st, doc.proxies, prefix, exclude_keys)
             ELSE st
        ELSE SurgeAddTextAll(st, TextRecords(working), prefix, exclude_keys)

\* process_clash_config, one fetched source text
ClashSource(st, text_content, prefix, exclude_keys) ==
    LET working == DecodeStep(text_content)
        doc == YamlLoad(working)
        is_yaml_success ==
            LooksStructured(working) /\ doc.ok /\ doc.has_proxies /\ doc.is_list
    IN  IF is_yaml_success THEN ClashAddYamlAll(st, doc.proxies, prefix, exclude_keys)
        ELSE ClashAddTextAll(st, TextRecords(working), prefix, exclude_keys)

(***************************************************************************)
(* The files and the subscriptions of the modelled deployments             *)
(***************************************************************************)
\* a plain list of node lines; the first two share a fingerprint, the last is malformed
LinesU1 ==
    << <<"H","K"," ","x"," ","="," ","s","s",","," ","a",","," ","1",","," ","p","a","s",
         "s","w","o","r","d","=","p">>,
       <<"H","o","n","g"," ","K","o","n","g"," ","2"," ","="," ","s","s",","," ","a",",",
         " ","1",","," ","p","a","s","s","w","o","r","d","=","q">>,
       <<"J","a","p","a","n"," ","="," ","s","s",","," ","b",","," ","2",","," ","p","a",
         "s","s","w","o","r","d","=","s">>,
       <<"b","a","d"," ","="," ","s","s",","," ","a">> >>

\* a text-dialect profile; only its [Proxy] section holds nodes
LinesU2 ==
    << <<"[","G","e","n","e","r","a","l","]">>,
       <<"k"," ","="," ","v",","," ","w",","," ","x">>,
       <<"[","P","r","o","x","y","]">>,
       <<"S","e","o","u","l"," ","="," ","t","r","o","j","a","n",","," ","c",","," ","3",
         ","," ","p","a","s","s","w","o","r","d","=","t">>,
       <<"T","o","k","y","o"," ","="," ","s","s",","," ","b",","," ","2",","," ","p","a",
         "s","s","w","o","r","d","=","r">>,
       <<"[","R","u","l","e","]">>,
       <<"z"," ","="," ","q",","," ","r",","," ","s">> >>

\* config/manual.ini with the exit node only
ManualM1 ==
    << <<"#"," ","m","a","n","u","a","l">>,
       <<"E","X","I","T"," ","="," ","h","t","t","p",","," ","e",","," ","9",","," ","u",
         "s","e","r","n","a","m","e","=","u",","," ","p","a","s","s","w","o","r","d","=",
         "w">> >>

\* config/manual.ini whose entries collide by name and by fingerprint with other nodes
ManualM2 ==
    << <<"E","X","I","T"," ","="," ","h","t","t","p",","," ","e",","," ","9",","," ","u",
         "s","e","r","n","a","m","e","=","u",","," ","p","a","s","s","w","o","r","d","=",
         "w">>,
       <<"J","P"," ","0","1"," ","C","h","a","i","n"," ","="," ","s","s",","," ","g",",",
         " ","7",","," ","p","a","s","s","w","o","r","d","=","m">>,
       <<"J","P"," ","0","1"," ","="," ","s","s",","," ","h",","," ","8",","," ","p","a",
         "s","s","w","o","r","d","=","n">>,
       <<"J","P"," ","0","1"," ","="," ","s","s",","," ","a",","," ","1",","," ","p","a",
         "s","s","w","o","r","d","=","z">>,
       <<"s","h","o","r","t"," ","="," ","x">> >>

\* the [Groups] section, in file order
GroupsG1 ==
    << << <<"A","u","t","o">>,
          <<"u","r","l","-","t","e","s","t",","," ","{","a","l","l"," ","f","i","l","t","e",
            "r","=","H","K","}",","," ","u","r","l","=","h","t","t","p",":","/","/","t",",",
            " ","i","n","t","e","r","v","a","l","=","3","0","0">> >>,
       << <<"A","u","t","o","_","s","u","r","g","e">>,
          <<"s","e","l","e","c","t",","," ","{","a","l","l"," ","f","i","l","t","e","r","=",
            "J","P",",","K","R"," ","e","x","c","l","u","d","e","=","C","h","a","i","n","}",
            ","," ","D","I","R","E","C","T">> >>,
       << <<"E","m","p","t","y">>,
          <<"s","e","l","e","c","t",","," ","{","a","l","l"," ","f","i","l","t","e","r","=",
            "Z","Z","}">> >>,
       << <<"B","a","r","e">>,
          <<"s","e","l","e","c","t">> >>,
       << <<"A","s","i","a","_","c","l","a","s","h">>,
          <<"s","e","l","e","c","t",","," ","{","a","l","l"," ","e","x","c","l","u","d","e",
            "=","H","K","}">> >> >>

\* the text of the template handed to process_surge_config
TemplateBody ==
    <<"[","G","e","n","e","r","a","l","]","\n","l","o","g","l","e","v","e","l"," ","="," ",
      "n","o","t","i","f","y">>

\* the values a [Sources] entry takes: url, or url|prefix
SourcePool ==
    { <<"u","1">>,
      <<"u","2">>,
      <<"u","2","|","[","F","P","]">>,
      <<"u","3">>,
      <<"u","4">> }

\* the text a subscription url answers with
Web ==
    (<<"u","1">> :> Join(LinesU1, <<"\n">>))
    @@ (<<"u","2">> :> Join(LinesU2, <<"\n">>))
    @@ (<<"u","3">> :> YamlText)
    @@ (<<"u","4">> :> YamlText2)

\* what requests.get(url) may answer: the text, or a failure
Responses(url) ==
    {[status |-> 200, text |-> Web[url]], [status |-> 500, text |-> <<>>]}

MaxSources == 2

\* the [Sources] sections: up to MaxSources distinct entries, in file order
SourceLists ==
    {s \in UNION {[1..n -> SourcePool] : n \in 0..MaxSources} :
        \A i, j \in 1..Len(s) : i # j => s[i] # s[j]}

\* the values of exclude_keywords in [Settings]
ExcludeSettings == {<<>>, <<"H","K">>}

\* config/manual.ini: missing, or one of the two lists
ManualFiles ==
    {[exists |-> FALSE, lines |-> <<>>],
     [exists |-> TRUE, lines |-> ManualM1],
     [exists |-> TRUE, lines |-> ManualM2]}

\* config.ini without and with a [Groups] section
GroupSections ==
    {[exists |-> FALSE, rules |-> <<>>], [exists |-> TRUE, rules |-> GroupsG1]}

\* the parsed config/clash_template.yaml
ClashTemplate == ("port" :> 7890)

Targets == {<<"s","u","r","g","e">>, <<"c","l","a","s","h">>}

\* the deployments that hold config/config.ini and the template of either
\* target; templates are the targets whose template file exists
Configs ==
    {[exists |-> TRUE, templates |-> Targets,
      sources |-> s, exclude_keywords |-> e, manual |-> m, groups |-> g] :
        s \in SourceLists, e \in ExcludeSettings, m \in ManualFiles, g \in GroupSections}

\* a deployment without config/config.ini: load_main_config returns None
NoConfig ==
    [exists |-> FALSE, templates |-> Targets,
     sources |-> <<>>, exclude_keywords |-> <<>>,
     manual |-> [exists |-> FALSE, lines |-> <<>>],
     groups |-> [exists |-> FALSE, rules |-> <<>>]]

NumRuns == 2

Runs == 1..NumRuns

(***************************************************************************)
(* One request: process_surge_config / process_clash_config, step by step  *)
(***************************************************************************)
\* url, prefix = (raw_val.split('|', 1) + [""])[:2], both stripped
SourceUrl(raw_val) == Strip(SplitOnce(raw_val, <<"|">>)[1])

SourcePrefix(raw_val) ==
    LET parts == SplitOnce(raw_val, <<"|">>) \o << <<>> >>
    IN  Strip(parts[2])

\* [k.strip() for k in settings.get('exclude_keywords', '').split(',') if k.strip()]
ExcludeKeys(setting) ==
    LET NonEmpty(k) == k # <<>>
    IN  SelectSeq(MapSeq(Split(setting, <<",">>), Strip), NonEmpty)

\* locals that every run takes from the first run
RunState_Shared(r) ==
    [renamer |-> renamer[1], seen_fingerprints |-> seen_fingerprints[1],
     seen_names |-> seen_names[1], all_proxies |-> all_proxies[1]]

\* the locals of run r: renamer, seen_fingerprints, seen_names, all_proxies
RunState(r) ==
    [renamer |-> renamer[r], seen_fingerprints |-> seen_fingerprints[r],
     seen_names |-> seen_names[r], all_proxies |-> all_proxies[r]]

SetRun(r, st) ==
    /\ renamer' = [renamer EXCEPT ![r] = st.renamer]
    /\ seen_fingerprints' = [seen_fingerprints EXCEPT ![r] = st.seen_fingerprints]
    /\ seen_names' = [seen_names EXCEPT ![r] = st.seen_names]
    /\ all_proxies' = [all_proxies EXCEPT ![r] = st.all_proxies]

\* sync_config(target) up to the loop over the sources: without config.ini
\* or without the template of the target the run returns an error text;
\* otherwise a fresh Renamer, an empty node set, empty seen sets
StartRun(r, t) ==
    /\ pc[r] = "idle"
    /\ target' = [target EXCEPT ![r] = t]
    /\ src_idx' = [src_idx EXCEPT ![r] = 1]
    /\ SetRun(r, NewRun)
    /\ fetched' = [fetched EXCEPT ![r] = <<>>]
    /\ IF ~conf.exists
       THEN /\ pc' = [pc EXCEPT ![r] = "done"]
            /\ output' = [output EXCEPT ![r] =
                   <<"E","r","r","o","r",":"," ","c","o","n","f","i","g",".","i","n","i",
                     " ","n","o","t"," ","f","o","u","n","d">>]
       ELSE IF t \notin conf.templates
       THEN /\ pc' = [pc EXCEPT ![r] = "done"]
            /\ output' = [output EXCEPT ![r] =
                   <<"E","r","r","o","r",":"," ","t","e","m","p","l","a","t","e",".">>
                   \o (IF t = <<"c","l","a","s","h">> THEN <<"y","a","m","l">>
                       ELSE <<"i","n","i">>)
                   \o <<" ","n","o","t"," ","f","o","u","n","d">>]
       ELSE /\ pc' = [pc EXCEPT ![r] = "sources"]
            /\ UNCHANGED output
    /\ UNCHANGED <<conf, SOURCE_CACHE, now, calls, unit, published>>

\* one turn of the loop over conf['Sources']: fetch, decode, parse, aggregate
ProcessSource(r) ==
    /\ pc[r] = "sources"
    /\ src_idx[r] <= Len(conf.sources)
    /\ LET raw_val == conf.sources[src_idx[r]]
           url == SourceUrl(raw_val)
           prefix == SourcePrefix(raw_val)
           exclude_keys == ExcludeKeys(conf.exclude_keywords)
       IN  \E resp \in Responses(url) :
              LET got == FetchContentCached(SOURCE_CACHE, now, url, resp)
                  st == IF got.status = 200 /\ got.content # <<>>
                        THEN IF target[r] = <<"c","l","a","s","h">>
                             THEN ClashSource(RunState(r), got.content, prefix, exclude_keys)
                             ELSE SurgeSource(RunState(r), got.content, prefix, exclude_keys)
                        ELSE RunState(r)
              IN  /\ SOURCE_CACHE' = got.cache
                  /\ fetched' = [fetched EXCEPT ![r] =
                                    Append(@, [content |-> got.content,
                                               status |-> got.status])]
                  /\ SetRun(r, st)
    /\ src_idx' = [src_idx EXCEPT ![r] = @ + 1]
    /\ UNCHANGED <<conf, now, pc, target, output, calls, unit, published>>

\* the manual list is merged once the sources are through
MergeManual(r) ==
    /\ pc[r] = "sources"
    /\ src_idx[r] > Len(conf.sources)
    /\ LET lines == ManualLines(conf.manual.lines)
           st == RunState(r)
       IN  SetRun(r, IF ~conf.manual.exists THEN st
                     ELSE IF target[r] = <<"c","l","a","s","h">>
                     THEN ClashManual(st, lines, ExcludeKeys(conf.exclude_keywords))
                     ELSE [st EXCEPT !.all_proxies = SurgeManual(@, lines)])
    /\ pc' = [pc EXCEPT ![r] = "chain"]
    /\ UNCHANGED <<conf, SOURCE_CACHE, now, target, src_idx, output, fetched, calls, unit, published>>

\* chain nodes are synthesized from the node set as it stands
ChainSynthesis(r) ==
    /\ pc[r] = "chain"
    /\ SetRun(r, IF target[r] = <<"c","l","a","s","h">> THEN ClashChain(RunState(r))
                 ELSE [RunState(r) EXCEPT !.all_proxies = SurgeChain(@)])
    /\ pc' = [pc EXCEPT ![r] = "render"]
    /\ UNCHANGED <<conf, SOURCE_CACHE, now, target, src_idx, output, fetched, calls, unit, published>>

\* the groups are assembled and the result is rendered
Render(r) ==
    /\ pc[r] = "render"
    /\ output' = [output EXCEPT ![r] =
          IF target[r] = <<"c","l","a","s","h">>
          THEN ClashRender(ClashTemplate, all_proxies[r], conf.groups.rules,
                           conf.groups.exists, target[r])
          ELSE SurgeRender(TemplateBody, all_proxies[r], conf.groups.rules,
                           conf.groups.exists, target[r])]
    /\ pc' = [pc EXCEPT ![r] = "done"]
    /\ UNCHANGED <<conf, SOURCE_CACHE, now, target, src_idx, renamer,
                   seen_fingerprints, seen_names, all_proxies, fetched, calls, unit, published>>

\* sync_config hands what the run returned to upload_to_gist, whatever it is
Publish(r) ==
    /\ pc[r] = "done"
    /\ published' = [published EXCEPT ![r] =
                        Append(@, [target |-> target[r], content |-> output[r]])]
    /\ pc' = [pc EXCEPT ![r] = "end"]
    /\ UNCHANGED <<conf, SOURCE_CACHE, now, target, src_idx, renamer,
                   seen_fingerprints, seen_names, all_proxies, output, fetched,
                   calls, unit>>

NoRuns ==
    /\ pc = [r \in Runs |-> "idle"]
    /\ target = [r \in Runs |-> <<>>]
    /\ src_idx = [r \in Runs |-> 0]
    /\ renamer = [r \in Runs |-> EmptyMap]
    /\ seen_fingerprints = [r \in Runs |-> {}]
    /\ seen_names = [r \in Runs |-> {}]
    /\ all_proxies = [r \in Runs |-> <<>>]
    /\ output = [r \in Runs |-> <<>>]
    /\ fetched = [r \in Runs |-> <<>>]
    /\ published = [r \in Runs |-> <<>>]

\* one deployment, no request made yet
Init ==
    /\ conf \in Configs
    /\ SOURCE_CACHE = EmptyMap
    /\ now = 0
    /\ NoRuns
    /\ calls = <<>>
    /\ unit = <<>>

\* one request to /sync, for either target
Next ==
    \/ \E t \in Targets : StartRun(1, t)
    \/ ProcessSource(1)
    \/ MergeManual(1)
    \/ ChainSynthesis(1)
    \/ Render(1)
    \/ Publish(1)

Spec == Init /\ [][Next]_vars

(***************************************************************************)
(* Properties of one request                                               *)
(***************************************************************************)
\* the i-th item of d_parts, "" where the line has fewer items
Part(d_parts, i) == IF i <= Len(d_parts) THEN d_parts[i] ELSE <<>>

\* the names of the nodes of run r, in the order of its node set
NodeNames(r) ==
    IF target[r] = <<"c","l","a","s","h">>
    THEN [i \in 1..Len(all_proxies[r]) |-> Get(all_proxies[r][i], "name", <<>>)]
    ELSE DictKeys(all_proxies[r])

\* (type, server, port) of the nodes of run r, in the order of its node set
NodeTuples(r) ==
    [i \in 1..Len(all_proxies[r]) |->
        IF target[r] = <<"c","l","a","s","h">>
        THEN <<Get(all_proxies[r][i], "type", <<>>), Get(all_proxies[r][i], "server", <<>>),
               Get(all_proxies[r][i], "port", <<>>)>>
        ELSE LET d_parts == LineRecord(all_proxies[r][i][2]).d_parts
             IN  <<Lower(Part(d_parts, 1)), Part(d_parts, 2), Part(d_parts, 3)>>]

Distinct(seq) == \A i, j \in 1..Len(seq) : i # j => seq[i] # seq[j]

\* C1: once the sources and the manual list are merged, and before chain
\* synthesis, no two nodes of the set have the same (type, server, port),
\* for either target.
C1_OneNodePerFingerprint ==
    \A r \in Runs : pc[r] = "chain" => Distinct(NodeTuples(r))

\* C2: in the node set handed to the serializer no two nodes have the same
\* final name, for either target.
C2_UniqueFinalNames ==
    \A r \in Runs : pc[r] \in {"render", "done"} => Distinct(NodeNames(r))

\* C3: merging the manual list leaves every node that is already in the set
\* in place and unchanged (a manual entry whose name is taken is stored under
\* a suffixed name instead), for either target.
C3_EarlierNodesStay ==
    [][\A r \in Runs :
          (pc[r] = "sources" /\ pc'[r] = "chain") =>
              \A i \in 1..Len(all_proxies[r]) :
                  /\ i <= Len(all_proxies'[r])
                  /\ all_proxies'[r][i] = all_proxies[r][i]]_vars

\* a name that chain synthesis is to build a chain node for
C5_IsEntry(name) ==
    /\ name # <<"E","X","I","T">>
    /\ \/ Contains(name, <<"J","P"," ">>)
       \/ Contains(name, <<"K","R"," ">>)
       \/ Contains(name, <<"T","W"," ">>)

\* node is the chain node of the node named entry: it is named "<entry> Chain",
\* carries what exit carries, and links to entry
C5_IsChainOf(t, node, exit, entry) ==
    LET chain_name == entry \o <<" ","C","h","a","i","n">>
    IN  IF t = <<"c","l","a","s","h">>
        THEN /\ DOMAIN node = DOMAIN exit \cup {"dialer-proxy"}
             /\ node["name"] = chain_name
             /\ node["dialer-proxy"] = entry
             /\ \A k \in DOMAIN exit \ {"name", "dialer-proxy"} : node[k] = exit[k]
        ELSE /\ node[1] = chain_name
             /\ LineRecord(node[2]).name = chain_name
             /\ LineRecord(node[2]).d_parts =
                    Append(LineRecord(exit[2]).d_parts,
                           <<"u","n","d","e","r","l","y","i","n","g","-","p","r","o","x","y","=">>
                           \o entry)

C5_NameOf(t, node) == IF t = <<"c","l","a","s","h">> THEN node["name"] ELSE node[1]

C5_Step(r) ==
    LET t == target[r]
        before == all_proxies[r]
        after == all_proxies'[r]
        names == NodeNames(r)
        exits == {i \in 1..Len(before) : names[i] = <<"E","X","I","T">>}
        exit == before[CHOOSE i \in exits : \A j \in exits : i <= j]
        entries == {names[i] : i \in {i \in 1..Len(before) : C5_IsEntry(names[i])}}
        added == {j \in 1..Len(after) : after[j] \notin Range(before)}
    IN  IF exits = {} THEN after = before
        ELSE /\ \A entry \in entries :
                    Cardinality({j \in added : C5_IsChainOf(t, after[j], exit, entry)}) = 1
             /\ \A j \in added : \E entry \in entries : C5_IsChainOf(t, after[j], exit, entry)
             /\ entries = {<<"J","P"," ","0","1">>, <<"K","R"," ","0","1">>}
                => {C5_NameOf(t, after[j]) : j \in added}
                   = {<<"J","P"," ","0","1"," ","C","h","a","i","n">>,
                      <<"K","R"," ","0","1"," ","C","h","a","i","n">>}

\* C5: chain synthesis leaves a set without EXIT unchanged; with EXIT it adds,
\* for every node other than EXIT whose name contains "JP ", "KR " or "TW ",
\* exactly one node "<name> Chain" that carries EXIT's type, server, port and
\* parameters and links to that node, and it adds nothing else; for the nodes
\* JP 01 and KR 01 that is JP 01 Chain and KR 01 Chain.
C5_ChainSynthesis ==
    [][\A r \in Runs : (pc[r] = "chain" /\ pc'[r] = "render") => C5_Step(r)]_vars

\* chain synthesis has run on a set with EXIT, JP 01 and KR 01 as the only
\* nodes to chain, and the set now holds their two chain nodes
C5_Witness ==
    /\ pc[1] = "render"
    /\ {n \in Range(NodeNames(1)) : C5_IsEntry(n) /\ ~EndsWith(n, <<" ","C","h","a","i","n">>)}
       = {<<"J","P"," ","0","1">>, <<"K","R"," ","0","1">>}
    /\ {n \in Range(NodeNames(1)) : EndsWith(n, <<" ","C","h","a","i","n">>)}
       = {<<"J","P"," ","0","1"," ","C","h","a","i","n">>,
          <<"K","R"," ","0","1"," ","C","h","a","i","n">>}
    /\ <<"E","X","I","T">> \in Range(NodeNames(1))

\* the members a rule resolves to: the names its clause matches, then its
\* literal members
C7_Membership(g_rule, node_names) ==
    LET match == ClauseMatch(g_rule)
        dynamic == IF match.found THEN filter_node_list(g_rule, node_names) ELSE <<>>
        cleaned == IF match.found THEN Replace(g_rule, match.whole, <<>>) ELSE g_rule
        Member(p) == p # <<>> /\ ~Contains(p, <<"=">>)
        parts == MapSeq(Split(cleaned, <<",">>), Strip)
    IN  dynamic \o SelectSeq(Tail(parts), Member)

\* the members of the groups in the rendering of run r, group by group
C7_RenderedMembers(r) ==
    IF target[r] = <<"c","l","a","s","h">>
    THEN [i \in 1..Len(output[r]["proxy-groups"]) |-> output[r]["proxy-groups"][i]["proxies"]]
    ELSE LET lines == Split(output[r], <<"\n">>)
             header == CHOOSE i \in 1..Len(lines) : lines[i] = <<"[","P","r","o","x","y"," ","G","r","o","u","p","]">>
             Member(p) == p # <<>> /\ ~Contains(p, <<"=">>)
         IN  [i \in 1..(Len(lines) - header) |->
                 SelectSeq(Tail(LineRecord(lines[header + i]).d_parts), Member)]

\* C7: a rendered group whose resolved membership is empty has the single
\* member DIRECT, for either target.
C7_EmptyGroupIsDirect ==
    \A r \in Runs :
        (pc[r] = "done" /\ conf.groups.exists) =>
            LET final_groups == ResolveGroups(conf.groups.rules, target[r])
            IN  \A i \in 1..Len(final_groups) :
                    C7_Membership(final_groups[i][2], NodeNames(r)) = <<>>
                    => C7_RenderedMembers(r)[i] = <<<<"D","I","R","E","C","T">>>>

\* (type, server, port) of the nodes of run r that have the three
C9_Tuples(r) ==
    {NodeTuples(r)[i] : i \in {i \in 1..Len(all_proxies[r]) :
                                  \A k \in 1..3 : NodeTuples(r)[i][k] # <<>>}}

\* (type, server, port) of the nodes the source parser reads from text
C9_Reparsed(text) ==
    LET read == SurgeSource(NewRun, text, <<>>, <<>>).all_proxies
    IN  {LET d_parts == LineRecord(read[i][2]).d_parts
         IN  <<Lower(d_parts[1]), d_parts[2], d_parts[3]>> : i \in 1..Len(read)}

\* C9: feeding the text rendering of a node set back through the source
\* parser recovers the (type, server, port) of every node of the set, bracket
\* prefixed names included.
C9_TextRoundTrip ==
    \A r \in Runs :
        (pc[r] = "done" /\ target[r] = <<"s","u","r","g","e">>) => C9_Reparsed(output[r]) = C9_Tuples(r)

(***************************************************************************)
(* A LocationRenamer on its own: a sequence of get_name calls              *)
(***************************************************************************)
\* the raw names handed to get_name
RawNames ==
    { <<"H","K"," ","x">>,
      <<"H","o","n","g"," ","K","o","n","g"," ","2">>,
      <<"[","F","P","]"," ","H","K"," ","y">>,
      <<"T","o","k","y","o">>,
      <<"z","z","z">> }

MaxCalls == 3

MaxRepeat == 9

\* renamer.get_name(original_name) on the Renamer of run r; past MaxCalls
\* calls only the name of the last call is handed in again
GetNameCall(r, original_name) ==
    /\ \/ Len(calls) < MaxCalls
       \/ /\ calls # <<>>
          /\ Len(calls) < MaxCalls + MaxRepeat
          /\ original_name = calls[Len(calls)].name
    /\ LET got == GetName(renamer[r], original_name)
       IN  /\ renamer' = [renamer EXCEPT ![r] = got.counters]
           /\ calls' = Append(calls, [name |-> original_name, result |-> got.name])
    /\ UNCHANGED <<conf, SOURCE_CACHE, now, pc, target, src_idx, seen_fingerprints,
                   seen_names, all_proxies, output, fetched, unit, published>>

\* a fresh LocationRenamer()
InitRenamer ==
    /\ conf = <<>>
    /\ SOURCE_CACHE = EmptyMap
    /\ now = 0
    /\ NoRuns
    /\ calls = <<>>
    /\ unit = <<>>

NextRenamer == \E original_name \in RawNames : GetNameCall(1, original_name)

SpecRenamer == InitRenamer /\ [][NextRenamer]_vars

\* the bucket of a raw name: its bracket prefix and its region code or "other"
C4_Bucket(name) == <<BracketPrefix(name), BucketLabel(name)>>

\* k as two digits
C4_TwoDigits(k) == <<DigitSeq[(k \div 10) + 1], DigitSeq[(k % 10) + 1]>>

\* the name the k-th call of a bucket is to return
C4_Expected(name, k) ==
    (IF BracketPrefix(name) # <<>> THEN BracketPrefix(name) \o <<" ">> ELSE <<>>)
    \o BucketLabel(name) \o <<" ">> \o C4_TwoDigits(k)

\* the buckets of the calls made so far, call by call
C4_Buckets == [i \in 1..Len(calls) |-> C4_Bucket(calls[i].name)]

\* every call made so far returned its bucket's label with the call's rank in
\* the bucket as suffix
C4_Numbering ==
    LET buckets == C4_Buckets
    IN  \A i \in 1..Len(calls) :
            LET k == Cardinality({j \in 1..i : buckets[j] = buckets[i]})
            IN  calls[i].result = C4_Expected(calls[i].name, k)

RECURSIVE C4_Replay(_, _)
\* the names a Renamer with these counters returns for the raw names
C4_Replay(counters, names) ==
    IF names = <<>> THEN <<>>
    ELSE LET got == GetName(counters, Head(names))
         IN  <<got.name>> \o C4_Replay(got.counters, Tail(names))

\* a fresh Renamer returns the same names for the same raw names
C4_ReplayEqual ==
    C4_Replay(EmptyMap, [i \in 1..Len(calls) |-> calls[i].name])
    = [i \in 1..Len(calls) |-> calls[i].result]

\* the counters count the calls: one counter per bucket called, holding the
\* number of calls of that bucket
C4_CountersCount ==
    LET buckets == C4_Buckets
        Calls(b) == Cardinality({j \in 1..Len(calls) : buckets[j] = b})
    IN  /\ Cardinality(DOMAIN renamer[1]) = Cardinality(Range(buckets))
        /\ \A b \in Range(buckets) :
               \E key \in DOMAIN renamer[1] :
                   /\ renamer[1][key] = Calls(b)
                   /\ EndsWith(key, b[2])
                   /\ StartsWith(key, b[1])

\* C4: the k-th get_name call of a bucket (bracket prefix, region code or
\* "other") returns the bucket's label with k as a two-digit suffix, from 01
\* on; a call raises its bucket's counter by one and no counter is ever
\* reset, so a fresh Renamer replays the same names for the same inputs.
C4_RenamerNumbering == C4_Numbering /\ C4_ReplayEqual /\ C4_CountersCount

\* a bucket has reached its twelfth call while other buckets, one of them
\* with a bracket prefix, hold their own numbering
C4_Witness ==
    /\ \E i \in 1..Len(calls) :
           calls[i].result = <<"[","F","P","]"," ","H","K"," ","0","1">>
    /\ \E i \in 1..Len(calls) : calls[i].result = <<"H","K"," ","0","2">>
    /\ \E i \in 1..Len(calls) : calls[i].result = <<"H","K"," ","1","0">>

(***************************************************************************)
(* Clause expansion on its own: filter_node_list and the group built on it *)
(***************************************************************************)
\* the keywords of the clauses
KeywordPool == {<<"H","K">>, <<"U","S">>, <<"0","2">>}

\* the node names the clauses are expanded over
NodePool == {<<"H","K"," ","0","1">>, <<"H","K"," ","0","2">>, <<"U","S"," ","0","1">>}

MaxKeywords == 2

MaxNodes == 3

\* the sequences of up to n distinct elements of a set
DistinctSeqs(set, n) ==
    {q \in UNION {[1..m -> set] : m \in 0..n} :
        \A i, j \in 1..Len(q) : i # j => q[i] # q[j]}

\* "url-test, {all filter=<filters> exclude=<excludes>}", a part being left
\* out when absent
ClauseRule(has_filter, filters, has_exclude, excludes) ==
    <<"u","r","l","-","t","e","s","t",","," ">> \o <<"{","a","l","l">>
    \o (IF has_filter THEN <<" ">> \o <<"f","i","l","t","e","r","=">> \o Join(filters, <<",">>) ELSE <<>>)
    \o (IF has_exclude THEN <<" ">> \o <<"e","x","c","l","u","d","e","=">> \o Join(excludes, <<",">>) ELSE <<>>)
    \o <<"}">>

\* a rule with a clause and a list of node names, before any call
InitFilter ==
    /\ conf = <<>>
    /\ SOURCE_CACHE = EmptyMap
    /\ now = 0
    /\ NoRuns
    /\ calls = <<>>
    /\ \E has_filter, has_exclude \in BOOLEAN :
       \E filters, excludes \in DistinctSeqs(KeywordPool, MaxKeywords) :
       \E node_names \in DistinctSeqs(NodePool, MaxNodes) :
           /\ has_filter = (filters # <<>>)
           /\ has_exclude = (excludes # <<>>)
           /\ unit = [op |-> "call", has_filter |-> has_filter, filters |-> filters,
                      has_exclude |-> has_exclude, excludes |-> excludes,
                      rule_str |-> ClauseRule(has_filter, filters, has_exclude, excludes),
                      node_names |-> node_names, result |-> <<>>]

\* res = filter_node_list(rule_str, node_names)
FilterNodeListCall ==
    /\ unit.op = "call"
    /\ unit' = [unit EXCEPT !.op = "filter_node_list",
                            !.result = filter_node_list(unit.rule_str, unit.node_names)]
    /\ UNCHANGED <<conf, SOURCE_CACHE, now, runVars, calls>>

\* the group object process_clash_config builds for the rule
ClashGroupCall ==
    /\ unit.op = "call"
    /\ unit' = [unit EXCEPT !.op = "group_obj",
                            !.result = ClashGroup(<<"A","u","t","o">>, unit.rule_str,
                                                  unit.node_names)]
    /\ UNCHANGED <<conf, SOURCE_CACHE, now, runVars, calls>>

NextFilter == FilterNodeListCall \/ ClashGroupCall

SpecFilter == InitFilter /\ [][NextFilter]_vars

\* the name contains one of the keywords
C6_Hit(keywords, name) == \E i \in 1..Len(keywords) : Contains(name, keywords[i])

\* the names the clause of unit selects: no exclude keyword, and a filter
\* keyword when the clause has a filter
C6_Selected ==
    LET Keep(name) == /\ ~C6_Hit(unit.excludes, name)
                      /\ unit.has_filter => C6_Hit(unit.filters, name)
    IN  SelectSeq(unit.node_names, Keep)

\* C6: expanding {all filter=.. exclude=..} over a list of names returns, in
\* the list's order, the names that contain no exclude keyword and, when a
\* filter is given, at least one filter keyword; for the names HK 01, HK 02,
\* US 01 and the rule "url-test, {all filter=HK}" the group has the type
\* url-test and the members HK 01, HK 02.
C6_ClauseExpansion ==
    /\ unit.op = "filter_node_list" => unit.result = C6_Selected
    /\ (unit.op = "group_obj" /\ C6_Selected # <<>>) =>
           /\ unit.result["type"] = <<"u","r","l","-","t","e","s","t">>
           /\ unit.result["proxies"] = C6_Selected
    /\ ( /\ unit.op = "group_obj"
         /\ unit.rule_str = <<"u","r","l","-","t","e","s","t",","," ","{","a","l","l"," ","f","i","l","t","e","r","=","H","K","}">>
         /\ unit.node_names = <<<<"H","K"," ","0","1">>, <<"H","K"," ","0","2">>, <<"U","S"," ","0","1">>>> )
       => unit.result["proxies"] = <<<<"H","K"," ","0","1">>, <<"H","K"," ","0","2">>>>

\* a clause with a filter and an exclude has been expanded over three names,
\* and the exclude has dropped a name that the filter selects
C6_Witness ==
    /\ unit.op = "filter_node_list"
    /\ unit.filters = <<<<"H","K">>>>
    /\ unit.excludes = <<<<"0","2">>>>
    /\ unit.node_names = <<<<"H","K"," ","0","1">>, <<"H","K"," ","0","2">>, <<"U","S"," ","0","1">>>>
    /\ unit.result = <<<<"H","K"," ","0","1">>>>

(***************************************************************************)
(* Target specialization on its own: the [Groups] rules of a target        *)
(***************************************************************************)
\* the rule every name of a [Groups] section stands for in the modelled files
GroupRules ==
    (<<"A","u","t","o">> :> <<"s","e","l","e","c","t",","," ","X">>)
    @@ (<<"A","u","t","o","_","s","u","r","g","e">> :> <<"s","e","l","e","c","t",","," ","Y">>)
    @@ (<<"A","u","t","o","_","c","l","a","s","h">> :> <<"s","e","l","e","c","t",","," ","Z">>)
    @@ (<<"B","a","r","e">> :> <<"s","e","l","e","c","t",","," ","V">>)
    @@ (<<"B","a","r","e","_","c","l","a","s","h">> :> <<"s","e","l","e","c","t",","," ","W">>)

MaxGroups == 3

\* the [Groups] sections: up to MaxGroups names, in file order
GroupLists ==
    {[i \in 1..Len(names) |-> <<names[i], GroupRules[names[i]]>>] :
        names \in DistinctSeqs(DOMAIN GroupRules, MaxGroups)}

\* a [Groups] section and a target, before the rules are resolved
InitGroups ==
    /\ conf = <<>>
    /\ SOURCE_CACHE = EmptyMap
    /\ now = 0
    /\ NoRuns
    /\ calls = <<>>
    /\ \E raw_groups \in GroupLists, t \in Targets :
           unit = [op |-> "call", raw_groups |-> raw_groups, target |-> t,
                   final_groups |-> <<>>, emitted |-> <<>>]

\* the groups a rendering names, in the order it emits them
EmittedNames(rendering, t) ==
    IF t = <<"c","l","a","s","h">>
    THEN [i \in 1..Len(rendering["proxy-groups"]) |-> rendering["proxy-groups"][i]["name"]]
    ELSE LET lines == Split(rendering, <<"\n">>)
             header == CHOOSE i \in 1..Len(lines) : lines[i] = <<"[","P","r","o","x","y"," ","G","r","o","u","p","]">>
         IN  [i \in 1..(Len(lines) - header) |-> LineRecord(lines[header + i]).name]

\* the group part of process_surge_config / process_clash_config on an empty
\* node set: final_groups, and the groups of the rendering
ResolveGroupsCall ==
    /\ unit.op = "call"
    /\ unit' = [unit EXCEPT
          !.op = "resolved",
          !.final_groups = ResolveGroups(unit.raw_groups, unit.target),
          !.emitted = EmittedNames(
              IF unit.target = <<"c","l","a","s","h">>
              THEN ClashRender(ClashTemplate, <<>>, unit.raw_groups, TRUE, unit.target)
              ELSE SurgeRender(TemplateBody, <<>>, unit.raw_groups, TRUE, unit.target),
              unit.target)]
    /\ UNCHANGED <<conf, SOURCE_CACHE, now, runVars, calls>>

NextGroups == ResolveGroupsCall

SpecGroups == InitGroups /\ [][NextGroups]_vars

\* "_surge" for the target surge, "_clash" for the target clash
C8_Suffix(t) == <<"_">> \o t

\* the other supported target
C8_Other(t) == IF t = <<"s","u","r","g","e">> THEN <<"c","l","a","s","h">>
               ELSE <<"s","u","r","g","e">>

\* C8: for the active target T a rule named <base>_T is emitted under the
\* name <base>, once, with its own rule text in place of the rule of <base>,
\* and never under the suffixed name; no rule named with the other target's
\* suffix is emitted; for {Auto: "select, X", Auto_surge: "select, Y"} and the
\* target surge the only group is Auto with the rule "select, Y".
C8_TargetSpecialization ==
    unit.op = "resolved" =>
        LET raw == unit.raw_groups
            final == unit.final_groups
            t == unit.target
            suffix == C8_Suffix(t)
        IN  /\ [i \in 1..Len(final) |-> final[i][1]] = unit.emitted
            /\ \A i \in 1..Len(raw) :
                   EndsWith(raw[i][1], suffix) =>
                       LET base == SubSeq(raw[i][1], 1, Len(raw[i][1]) - Len(suffix))
                       IN  /\ Cardinality({j \in 1..Len(final) : final[j][1] = base}) = 1
                           /\ \A j \in 1..Len(final) :
                                  final[j][1] = base => final[j][2] = raw[i][2]
                           /\ \A j \in 1..Len(unit.emitted) : unit.emitted[j] # raw[i][1]
            /\ \A j \in 1..Len(unit.emitted) :
                   ~EndsWith(unit.emitted[j], C8_Suffix(C8_Other(t)))
            /\ ( /\ t = <<"s","u","r","g","e">>
                 /\ raw = << <<<<"A","u","t","o">>, <<"s","e","l","e","c","t",","," ","X">>>>,
                             <<<<"A","u","t","o","_","s","u","r","g","e">>,
                               <<"s","e","l","e","c","t",","," ","Y">>>> >> )
               => final = << <<<<"A","u","t","o">>, <<"s","e","l","e","c","t",","," ","Y">>>> >>

\* the rules Auto and Auto_surge have been resolved for the target surge
C8_Witness ==
    /\ unit.op = "resolved"
    /\ unit.target = <<"s","u","r","g","e">>
    /\ unit.raw_groups = << <<<<"A","u","t","o">>, <<"s","e","l","e","c","t",","," ","X">>>>,
                            <<<<"A","u","t","o","_","s","u","r","g","e">>,
                              <<"s","e","l","e","c","t",","," ","Y">>>> >>
    /\ unit.emitted = << <<"A","u","t","o">> >>

(***************************************************************************)
(* Overlapping requests                                                    *)
(***************************************************************************)
\* the deployments the overlapping requests are made to
RunConfigs ==
    {c \in Configs :
        /\ c.sources \in {<< <<"u","1">> >>, << <<"u","2","|","[","F","P","]">> >>}
        /\ c.exclude_keywords = <<>>
        /\ c.manual.exists /\ c.manual.lines = ManualM1
        /\ ~c.groups.exists}

InitRuns ==
    /\ conf \in RunConfigs
    /\ SOURCE_CACHE = EmptyMap
    /\ now = 0
    /\ NoRuns
    /\ calls = <<>>
    /\ unit = <<>>

\* up to NumRuns requests, for either target, their steps interleaved
NextRuns ==
    \E r \in Runs :
        \/ \E t \in Targets : StartRun(r, t)
        \/ ProcessSource(r)
        \/ MergeManual(r)
        \/ ChainSynthesis(r)
        \/ Render(r)
        \/ Publish(r)

SpecRuns == InitRuns /\ [][NextRuns]_vars

\* what a run holds when it starts
C10_Fresh ==
    [renamer |-> [k \in {} |-> 0], seen_fingerprints |-> {}, seen_names |-> {},
     all_proxies |-> <<>>]

RECURSIVE C10_Sources(_, _, _, _)
\* the locals of a run made alone for target t, once it is through the first
\* n sources with the texts got
C10_Sources(t, got, n, st) ==
    IF n = 0 THEN st
    ELSE LET before == C10_Sources(t, got, n - 1, st)
             raw_val == conf.sources[n]
             exclude_keys == ExcludeKeys(conf.exclude_keywords)
         IN  IF got[n].status # 200 \/ got[n].content = <<>> THEN before
             ELSE IF t = <<"c","l","a","s","h">>
             THEN ClashSource(before, got[n].content, SourcePrefix(raw_val), exclude_keys)
             ELSE SurgeSource(before, got[n].content, SourcePrefix(raw_val), exclude_keys)

\* the locals of a run made alone for target t, with the texts got, when it
\* is at the position at
C10_Alone(t, got, at) ==
    LET sourced == C10_Sources(t, got, Len(got), C10_Fresh)
        lines == ManualLines(conf.manual.lines)
        merged == IF ~conf.manual.exists THEN sourced
                  ELSE IF t = <<"c","l","a","s","h">>
                  THEN ClashManual(sourced, lines, ExcludeKeys(conf.exclude_keywords))
                  ELSE [sourced EXCEPT !.all_proxies = SurgeManual(@, lines)]
        chained == IF t = <<"c","l","a","s","h">> THEN ClashChain(merged)
                   ELSE [merged EXCEPT !.all_proxies = SurgeChain(@)]
    IN  IF at = "sources" THEN sourced
        ELSE IF at = "chain" THEN merged
        ELSE chained

\* the rendering of a run made alone for target t over the node set all
C10_AloneOutput(t, all) ==
    IF t = <<"c","l","a","s","h">>
    THEN ClashRender(ClashTemplate, all, conf.groups.rules, conf.groups.exists, t)
    ELSE SurgeRender(TemplateBody, all, conf.groups.rules, conf.groups.exists, t)

\* C10: a run starts with a fresh Renamer, empty seen sets and an empty node
\* set, and whatever the other runs do in between, its names, its retained
\* set and its rendering are those of the same run made alone on the same
\* fetched texts.
C10_RunsIndependent ==
    \A r \in Runs :
        pc[r] # "idle" =>
            LET alone == C10_Alone(target[r], fetched[r], pc[r])
            IN  /\ renamer[r] = alone.renamer
                /\ seen_fingerprints[r] = alone.seen_fingerprints
                /\ seen_names[r] = alone.seen_names
                /\ all_proxies[r] = alone.all_proxies
                /\ pc[r] = "done" => output[r] = C10_AloneOutput(target[r], alone.all_proxies)

\* two runs for different targets overlap: the second has named its nodes
\* while the first is through its sources and not yet rendered
C10_Witness ==
    /\ pc[1] = "chain"
    /\ pc[2] = "done"
    /\ target[1] # target[2]
    /\ all_proxies[1] # <<>>
    /\ all_proxies[2] # <<>>
    /\ renamer[1] # [k \in {} |-> 0]
    /\ renamer[2] # [k \in {} |-> 0]

(***************************************************************************)
(* Failure of a source                                                     *)
(***************************************************************************)
\* the parse of the fetched text raises: the structured document holds an
\* entry that is no mapping
C11_ParseRaises(content) ==
    LET Raises(working, doc) ==
            /\ LooksStructured(working)
            /\ doc.ok /\ doc.has_proxies /\ doc.is_list
            /\ \E i \in 1..Len(doc.proxies) : ~doc.proxies[i].mapping
        Loaded(working) == Raises(working, YamlLoad(working))
    IN  Loaded(DecodeStep(content))

\* the source failed: no 200, no text, or an exception while it was parsed
C11_Failed(got) ==
    got.status # 200 \/ got.content = <<>> \/ C11_ParseRaises(got.content)

\* C11: a source that fails (no 200, an empty text, an exception while it is
\* parsed) adds no node to the set of the run, and the loop goes on with the
\* next source: every declared source is fetched, none ends the run.
C11_FailingSourceIsolated ==
    [][\A r \in Runs :
          (pc[r] = "sources" /\ src_idx'[r] = src_idx[r] + 1) =>
              /\ pc'[r] = "sources"
              /\ Len(fetched'[r]) = src_idx[r]
              /\ C11_Failed(fetched'[r][src_idx[r]]) => all_proxies'[r] = all_proxies[r]]_vars

\* C11, without the exception while parsing: a source whose fetch gives no 200
\* or no text adds no node, and the loop goes on with the next source.
C11_FailedFetchIsolated ==
    [][\A r \in Runs :
          (pc[r] = "sources" /\ src_idx'[r] = src_idx[r] + 1) =>
              LET got == fetched'[r][src_idx[r]]
              IN  /\ pc'[r] = "sources"
                  /\ Len(fetched'[r]) = src_idx[r]
                  /\ (got.status # 200 \/ got.content = <<>>) =>
                        /\ all_proxies'[r] = all_proxies[r]
                        /\ renamer'[r] = renamer[r]
                        /\ seen_fingerprints'[r] = seen_fingerprints[r]]_vars

\* a failed fetch was followed by a source that gave nodes
C11_Witness ==
    /\ pc[1] = "chain"
    /\ Len(fetched[1]) = 2
    /\ fetched[1][1].status # 200
    /\ fetched[1][2].status = 200
    /\ all_proxies[1] # <<>>

(***************************************************************************)
(* The fetch cache over time                                               *)
(***************************************************************************)
MaxTicks == 4

\* the addresses fetched while the clock runs
CacheUrls == {<<"u","1">>, <<"u","2">>}

\* what requests.get(url) may answer while the clock runs: the text, a text
\* that has changed since, a refusal, or a failure
CacheResponses(url) ==
    Responses(url) \cup {[status |-> 200, text |-> <<"n","e","w"," ">> \o url],
                         [status |-> 404, text |-> <<>>]}

\* datetime.datetime.now() moves on by half of CACHE_TTL
Tick ==
    /\ now < MaxTicks * 90
    /\ now' = now + 90
    /\ UNCHANGED <<conf, SOURCE_CACHE, runVars, calls, unit>>

\* fetch_content_cached(url), called on its own
FetchCall(url) ==
    \E resp \in CacheResponses(url) :
        LET got == FetchContentCached(SOURCE_CACHE, now, url, resp)
        IN  /\ SOURCE_CACHE' = got.cache
            /\ unit' = [url |-> url, resp |-> resp, content |-> got.content,
                        status |-> got.status, requests |-> got.requests]
            /\ UNCHANGED <<conf, now, runVars, calls>>

\* no request made, nothing loaded: the state in which a function is called
\* on its own
InitUnit ==
    /\ conf = <<>>
    /\ SOURCE_CACHE = EmptyMap
    /\ now = 0
    /\ NoRuns
    /\ calls = <<>>
    /\ unit = <<>>

NextCache == Tick \/ \E url \in CacheUrls : FetchCall(url)

SpecCache == InitUnit /\ [][NextCache]_vars

\* the cache holds an entry for url that has not expired
C12_Fresh(url) ==
    url \in DOMAIN SOURCE_CACHE /\ SOURCE_CACHE[url].expires_at > now

\* what a call of fetch_content_cached has to do, the cache and the clock
\* being as they were before the call
C12_Call ==
    LET url == unit'.url
        resp == unit'.resp
    IN  /\ unit'.requests = 0 <=> C12_Fresh(url)
        /\ C12_Fresh(url) =>
              /\ unit'.content = SOURCE_CACHE[url].content
              /\ unit'.status = 200
              /\ SOURCE_CACHE' = SOURCE_CACHE
        /\ ~C12_Fresh(url) =>
              /\ unit'.requests = 1
              /\ resp.status = 200 =>
                    /\ unit'.content = resp.text /\ unit'.status = 200
                    /\ url \in DOMAIN SOURCE_CACHE'
                    /\ SOURCE_CACHE'[url] =
                          [content |-> resp.text, expires_at |-> now + CACHE_TTL]
              /\ resp.status # 200 =>
                    /\ unit'.content = <<>> /\ unit'.status # 200
                    /\ url \notin DOMAIN SOURCE_CACHE'
        /\ \A u \in CacheUrls \ {url} :
              /\ u \in DOMAIN SOURCE_CACHE' <=> u \in DOMAIN SOURCE_CACHE
              /\ u \in DOMAIN SOURCE_CACHE => SOURCE_CACHE'[u] = SOURCE_CACHE[u]

\* C12: fetch_content_cached(url) answers (cached content, 200) without a
\* network request exactly when the cache holds an entry for url that expires
\* after now; otherwise it makes one request, stores the body with the expiry
\* now + CACHE_TTL on a 200 only, and on any other outcome answers
\* (None, non-200) and leaves no entry for url.  Content whose expiry has
\* passed is never returned, and a hit leaves the expiry as it was.
C12_CacheContract ==
    [][now' = now => C12_Call]_vars

\* an entry was stored, expired, and the call after its expiry went to the
\* network and returned the text that had changed
C12_Witness ==
    /\ unit # <<>>
    /\ now = CACHE_TTL
    /\ unit.requests = 1
    /\ unit.status = 200
    /\ unit.content = <<"n","e","w"," ","u","1">>
    /\ SOURCE_CACHE[unit.url].expires_at = 2 * CACHE_TTL
    /\ <<"u","2">> \in DOMAIN SOURCE_CACHE
    /\ SOURCE_CACHE[<<"u","2">>].expires_at = CACHE_TTL

(***************************************************************************)
(* Missing prerequisites                                                   *)
(***************************************************************************)
\* deployments with and without config.ini, with and without the templates
SyncConfigs ==
    {[c EXCEPT !.templates = ts] :
        c \in RunConfigs \cup {NoConfig}, ts \in SUBSET Targets}

InitSync ==
    /\ conf \in SyncConfigs
    /\ SOURCE_CACHE = EmptyMap
    /\ now = 0
    /\ NoRuns
    /\ calls = <<>>
    /\ unit = <<>>

SpecSync == InitSync /\ [][Next]_vars

\* run r was asked for a target whose prerequisites are missing
C13_Missing(r) ==
    /\ pc[r] # "idle"
    /\ ~conf.exists \/ target[r] \notin conf.templates

\* the error texts of the two serializers
C13_IsError(text) ==
    /\ Len(text) >= 6
    /\ SubSeq(text, 1, 6) = <<"E","r","r","o","r",":">>

\* C13: when config.ini or the template of the target is missing, the run
\* returns an error text and gives no configuration output: no source is
\* fetched, the fetch cache stays as it was, no node or group section is
\* rendered, and nothing is handed to publish.
C13_NoOutputWhenMissing ==
    \A r \in Runs :
        C13_Missing(r) =>
            /\ C13_IsError(output[r])
            /\ fetched[r] = <<>>
            /\ SOURCE_CACHE = EmptyMap
            /\ all_proxies[r] = <<>>
            /\ published[r] = <<>>

\* C13, up to the return of the serializer: the error text is returned, no
\* source is fetched, the cache stays as it was, nothing is rendered.
C13_ErrorResult ==
    \A r \in Runs :
        C13_Missing(r) =>
            /\ C13_IsError(output[r])
            /\ ~Contains(output[r], <<"[","P","r","o","x","y","]">>)
            /\ ~Contains(output[r], <<"p","r","o","x","i","e","s">>)
            /\ fetched[r] = <<>>
            /\ SOURCE_CACHE = EmptyMap
            /\ all_proxies[r] = <<>>

\* a clash request ended with the error text although config.ini exists
C13_Witness ==
    /\ pc[1] = "end"
    /\ conf.exists
    /\ conf.templates = {<<"s","u","r","g","e">>}
    /\ target[1] = <<"c","l","a","s","h">>
    /\ C13_IsError(output[1])

(***************************************************************************)
(* Order of the rendering                                                  *)
(***************************************************************************)
\* the names of the nodes in the rendering of run r, in rendered order
C14_RenderedNodes(r) ==
    IF target[r] = <<"c","l","a","s","h">>
    THEN [i \in 1..Len(output[r]["proxies"]) |-> output[r]["proxies"][i]["name"]]
    ELSE LET Names(lines, first, last) ==
                 [i \in 1..(last - first - 2) |-> LineRecord(lines[first + i]).name]
             Section(lines) ==
                 Names(lines,
                       CHOOSE i \in 1..Len(lines) : lines[i] = <<"[","P","r","o","x","y","]">>,
                       CHOOSE i \in 1..Len(lines) :
                           lines[i] = <<"[","P","r","o","x","y"," ","G","r","o","u","p","]">>)
         IN  Section(Split(output[r], <<"\n">>))

\* name a may stand before name b: same bracket prefix and a not after b, or
\* the prefix of a sorts before the prefix of b, the empty prefix last
C14_MayPrecede(a, b) ==
    IF BracketPrefix(a) = BracketPrefix(b) THEN ~StrLess(b, a)
    ELSE /\ BracketPrefix(a) # <<>>
         /\ BracketPrefix(b) = <<>> \/ StrLess(BracketPrefix(a), BracketPrefix(b))

C14_Ordered(names) ==
    \A i, j \in 1..Len(names) : i < j => C14_MayPrecede(names[i], names[j])

\* C14: in the rendering of either target the nodes stand grouped by bracket
\* prefix, sorted by name inside a prefix group, the group without prefix
\* last, and the groups stand in the order of the resolved group names; the
\* rendering does not depend on the order in which the nodes were inserted.
C14_CanonicalOrder ==
    \A r \in Runs :
        pc[r] = "done" =>
            /\ C14_Ordered(C14_RenderedNodes(r))
            /\ conf.groups.exists =>
                  EmittedNames(output[r], target[r]) =
                      [i \in 1..Len(ResolveGroups(conf.groups.rules, target[r])) |->
                          ResolveGroups(conf.groups.rules, target[r])[i][1]]

\* C14 for the text dialect alone
C14_SurgeOrder ==
    \A r \in Runs :
        (pc[r] = "done" /\ target[r] = <<"s","u","r","g","e">>) =>
            /\ C14_Ordered(C14_RenderedNodes(r))
            /\ Range(C14_RenderedNodes(r)) = Range(NodeNames(r))

(***************************************************************************)
(* A malformed entry inside a source                                       *)
(***************************************************************************)
\* a structured entry that is a mapping with a name, a server, a port and a
\* type both serializers know
C15_WellFormed(entry) ==
    /\ entry.mapping
    /\ {"name", "type", "server", "port"} \subseteq DOMAIN entry.fields
    /\ Lower(entry.fields.type) \in {<<"s","s">>, <<"t","r","o","j","a","n">>,
                                      <<"v","m","e","s","s">>}

\* the well-formed entries of a fetched text, malformed ones left out: the
\* raw name and (type, server, port) of each
C15_Entries(content) ==
    LET OfYaml(entry) ==
            [name |-> entry.fields.name,
             tuple |-> <<Lower(entry.fields.type), entry.fields.server, entry.fields.port>>]
        OfLine(rec) ==
            [name |-> rec.name,
             tuple |-> <<Lower(rec.d_parts[1]), rec.d_parts[2], rec.d_parts[3]>>]
        Parsed(working, doc) ==
            IF LooksStructured(working) /\ doc.ok /\ doc.has_proxies /\ doc.is_list
            THEN MapSeq(SelectSeq(doc.proxies, C15_WellFormed), OfYaml)
            ELSE MapSeq(TextRecords(working), OfLine)
        Loaded(working) == Parsed(working, YamlLoad(working))
    IN  Loaded(DecodeStep(content))

\* the well-formed entries of the sources run r has processed so far
C15_RunEntries(r) ==
    UNION {Range(C15_Entries(fetched[r][k].content)) :
              k \in {n \in 1..Len(fetched[r]) : fetched[r][n].status = 200}}

\* every entry of the set is in the node set of run r, unless an entry with
\* its fingerprint is excluded by name
C15_Retained(r, entries) ==
    \A e \in entries :
        \/ \E d \in entries :
              d.tuple = e.tuple /\ Excluded(ExcludeKeys(conf.exclude_keywords), d.name)
        \/ e.tuple \in Range(NodeTuples(r))

\* C15: a malformed entry inside a source (a text line with fewer than three
\* comma fields, a structured entry that is no mapping or lacks type, name,
\* server or port) drops that entry only: the well-formed entries of the
\* source before and after it are retained, for either target.
C15_OnlyMalformedDropped ==
    \A r \in Runs :
        pc[r] = "sources" => C15_Retained(r, C15_RunEntries(r))

\* C15 for the runs whose sources are all in the text dialect
C15_TextLines ==
    \A r \in Runs :
        (/\ pc[r] = "sources"
         /\ \A k \in 1..Len(fetched[r]) :
               ~LooksStructured(DecodeStep(fetched[r][k].content))) =>
            C15_Retained(r, C15_RunEntries(r))

(***************************************************************************)
(* Order of the checks of the aggregation                                  *)
(***************************************************************************)
\* the name the Renamer gave to the i-th record of the bucket with this key
C16_Renamed(key, i) ==
    LET Name(prefix, label) ==
            (IF prefix # <<>> THEN prefix \o <<" ">> ELSE <<>>)
            \o label \o <<" ">> \o C4_TwoDigits(i)
        Of(parts) == Name(parts[1], parts[2])
    IN  Of(SplitOnce(key, <<"_">>))

\* a node of run r carries the name, under the prefix of one of the sources
C16_IsRetained(r, renamed) ==
    \E k \in 1..Len(conf.sources) :
        FinalName(SourcePrefix(conf.sources[k]), renamed) \in Range(NodeNames(r))

\* C16: the fingerprint check, then the exclusion check, then the Renamer:
\* the Renamer is called only for a record that is no duplicate, is not
\* excluded and is then inserted, so the renamed nodes retained in a bucket
\* are numbered 01..k without gaps, for either target.
C16_RenamerOnlyForRetained ==
    \A r \in Runs :
        pc[r] = "sources" =>
            \A key \in DOMAIN renamer[r] :
                \A i \in 1..renamer[r][key] : C16_IsRetained(r, C16_Renamed(key, i))

(***************************************************************************)
(* The two targets over the same inputs                                    *)
(***************************************************************************)
\* the canonical node set of a run for target t: the final name and
\* (type, server, port) of every node of all
C17_Nodes(t, all) ==
    {IF t = <<"c","l","a","s","h">>
     THEN <<Get(all[i], "name", <<>>),
            <<Lower(Get(all[i], "type", <<>>)), Get(all[i], "server", <<>>),
              Get(all[i], "port", <<>>)>> >>
     ELSE LET Tuple(d_parts) ==
                  <<Lower(Part(d_parts, 1)), Part(d_parts, 2), Part(d_parts, 3)>>
          IN  <<all[i][1], Tuple(LineRecord(all[i][2]).d_parts)>> :
     i \in 1..Len(all)}

\* C17: the surge run and the clash run over the same fetched texts, the same
\* exclusion keywords and the same manual list retain the same canonical
\* node set: the same fingerprints under the same final names.
C17_SameNodeSet ==
    \A r \in Runs :
        pc[r] = "render" =>
            C17_Nodes(target[r], all_proxies[r]) =
                C17_Nodes(C8_Other(target[r]),
                          C10_Alone(C8_Other(target[r]), fetched[r], "render").all_proxies)

\* C17 for the deployments whose sources are in the text dialect, exclude
\* nothing and have the exit node as their manual list
C17_SameNodeSetPlain ==
    \A r \in Runs :
        (pc[r] = "render" /\ conf \in RunConfigs) =>
            C17_Nodes(target[r], all_proxies[r]) =
                C17_Nodes(C8_Other(target[r]),
                          C10_Alone(C8_Other(target[r]), fetched[r], "render").all_proxies)

(***************************************************************************)
(* Candidate lines of a text                                               *)
(***************************************************************************)
MaxLines == 3

\* the lines the texts are made of: markers, another header, node lines
\* without and with a bracket prefix, a comment, a line without "=", an
\* empty line
LinePool ==
    { <<"[","P","r","o","x","y","]">>,
      <<" ","[","p","r","o","x","y","]">>,
      <<"[","R","u","l","e","]">>,
      <<"a"," ","="," ","s","s",","," ","h",","," ","1">>,
      <<"[","F","P","]"," ","H","K"," ","="," ","s","s",","," ","h",","," ","1">>,
      <<"#"," ","c"," ","="," ","s","s",","," ","h",","," ","2">>,
      <<"p","l","a","i","n">>,
      <<>> }

\* the selection of the candidate lines of a text, called on its own
CandidateLinesCall(lines) ==
    /\ unit = <<>>
    /\ unit' = [lines |-> lines, candidates |-> CandidateLines(Join(lines, <<"\n">>))]
    /\ UNCHANGED <<conf, SOURCE_CACHE, now, runVars, calls>>

NextLines ==
    \E n \in 1..MaxLines : \E lines \in [1..n -> LinePool] : CandidateLinesCall(lines)

SpecLines == InitUnit /\ [][NextLines]_vars

C18_Marker(line) == Lower(Strip(line)) = <<"[","p","r","o","x","y","]">>

\* a bracketed section header: "[...]" and nothing else
C18_Header(line) ==
    /\ StartsWith(Strip(line), <<"[">>)
    /\ EndsWith(Strip(line), <<"]">>)

\* non-empty, no comment (#, //, ;), with an "="
C18_NodeLine(line) ==
    /\ Strip(line) # <<>>
    /\ ~StartsWith(Strip(line), <<"#">>)
    /\ ~StartsWith(Strip(line), <<"/","/">>)
    /\ ~StartsWith(Strip(line), <<";">>)
    /\ Contains(line, <<"=">>)

\* line i is to be a candidate
C18_Selected(lines, i) ==
    /\ C18_NodeLine(lines[i])
    /\ (\E m \in 1..Len(lines) : C18_Marker(lines[m])) =>
          \E m \in 1..(i - 1) :
              /\ C18_Marker(lines[m])
              /\ \A k \in (m + 1)..(i - 1) : ~C18_Header(lines[k])

RECURSIVE C18_Expected(_, _)
\* the lines from the i-th on that are to be candidates, stripped, in order
C18_Expected(lines, i) ==
    IF i > Len(lines) THEN <<>>
    ELSE (IF C18_Selected(lines, i) THEN <<Strip(lines[i])>> ELSE <<>>)
         \o C18_Expected(lines, i + 1)

\* C18: with a line that is [Proxy] in any case, the candidates are the
\* non-empty lines with an "=" that are no comment and stand after the marker
\* and before the next bracketed section header; without such a line they
\* are all non-empty lines with an "=" that are no comment, a node line whose
\* name starts with a bracketed prefix included.
C18_CandidateSelection ==
    unit # <<>> => unit.candidates = C18_Expected(unit.lines, 1)

\* C18 for the texts in which no node line starts with a bracket
C18_CandidateSelectionPlain ==
    (/\ unit # <<>>
     /\ \A i \in 1..Len(unit.lines) :
           StartsWith(Strip(unit.lines[i]), <<"[">>) => C18_Header(unit.lines[i]))
        => unit.candidates = C18_Expected(unit.lines, 1)

(***************************************************************************)
(* Members of a group                                                      *)
(***************************************************************************)
\* the static tokens a rule may carry before and after its clause
StaticPool == {<<>>, <<"D","I","R","E","C","T">>, <<"H","K"," ","0","1">>}

\* "select, <before>, {all filter=HK}, <after>", an empty token left out
MemberRule(before, after) ==
    <<"s","e","l","e","c","t",","," ">>
    \o (IF before # <<>> THEN before \o <<","," ">> ELSE <<>>)
    \o <<"{","a","l","l"," ","f","i","l","t","e","r","=","H","K","}">>
    \o (IF after # <<>> THEN <<","," ">> \o after ELSE <<>>)

\* one rule resolved over the node names as the serializer of target t does:
\* final_rule of process_surge_config, group_obj of process_clash_config
GroupMembersCall(t, before, after, node_names) ==
    /\ unit = <<>>
    /\ unit' = [target |-> t, before |-> before, after |-> after,
                node_names |-> node_names,
                result |-> IF t = <<"c","l","a","s","h">>
                           THEN ClashGroup(<<"G">>, MemberRule(before, after), node_names)
                           ELSE SurgeGroupRule(MemberRule(before, after),
                                               SortedNames(node_names))]
    /\ UNCHANGED <<conf, SOURCE_CACHE, now, runVars, calls>>

NextMembers ==
    \E t \in Targets : \E before, after \in StaticPool :
        \E node_names \in DistinctSeqs(NodePool, MaxNodes) :
            GroupMembersCall(t, before, after, node_names)

SpecMembers == InitUnit /\ [][NextMembers]_vars

\* the members of the resolved group of unit
C19_Members ==
    IF unit.target = <<"c","l","a","s","h">> THEN unit.result["proxies"]
    ELSE LET Member(p) == p # <<>> /\ ~Contains(p, <<"=">>)
         IN  SelectSeq(Tail(MapSeq(Split(unit.result, <<",">>), Strip)), Member)

\* the names of unit that the clause {all filter=HK} matches
C19_Dynamic == {n \in Range(unit.node_names) : Contains(n, <<"H","K">>)}

\* the static tokens of the rule of unit
C19_Static == {unit.before, unit.after} \ {<<>>}

\* C19: the resolved member list of a group is the union of its dynamic
\* matches and its static tokens, every dynamic match before every static
\* member wherever the clause stands in the rule, no name twice, for either
\* target.
C19_DynamicBeforeStatic ==
    (unit # <<>> /\ C19_Dynamic # {}) =>
        /\ Range(C19_Members) = C19_Dynamic \cup C19_Static
        /\ Distinct(C19_Members)
        /\ \A i, j \in 1..Len(C19_Members) :
              (i < j /\ C19_Members[j] \in C19_Dynamic) => C19_Members[i] \in C19_Dynamic

\* C19 for the rules whose static tokens stand after the clause and name no
\* node that the clause matches
C19_ClauseFirst ==
    (/\ unit # <<>> /\ C19_Dynamic # {}
     /\ unit.before = <<>>
     /\ unit.after \notin C19_Dynamic) =>
        /\ Range(C19_Members) = C19_Dynamic \cup C19_Static
        /\ Distinct(C19_Members)
        /\ \A i, j \in 1..Len(C19_Members) :
              (i < j /\ C19_Members[j] \in C19_Dynamic) => C19_Members[i] \in C19_Dynamic

(***************************************************************************)
(* Chain synthesis and the nodes that exist                                *)
(***************************************************************************)
\* the names of the nodes of a node set of target t, in its order
C20_Names(t, all) == [i \in 1..Len(all) |-> C5_NameOf(t, all[i])]

\* chain synthesis of run r keeps every node with its definition and leaves
\* no name twice that was there once
C20_Step(r) ==
    /\ \A i \in 1..Len(all_proxies[r]) : all_proxies[r][i] \in Range(all_proxies'[r])
    /\ Distinct(C20_Names(target[r], all_proxies[r]))
          => Distinct(C20_Names(target[r], all_proxies'[r]))

\* C20: adding the chain nodes never overwrites, drops or duplicates a node
\* that exists: every node present before is present afterwards with its
\* definition unchanged, also when the set holds a node whose name ends in
\* " Chain" (a manual node JP 01 Chain next to JP 01).
C20_ChainKeepsNodes ==
    [][\A r \in Runs : (pc[r] = "chain" /\ pc'[r] = "render") => C20_Step(r)]_vars

\* C20 for the node sets in which no name ends in " Chain"
C20_WithoutChainNames ==
    [][\A r \in Runs :
          (/\ pc[r] = "chain" /\ pc'[r] = "render"
           /\ \A i \in 1..Len(all_proxies[r]) :
                 ~EndsWith(C5_NameOf(target[r], all_proxies[r][i]),
                           <<" ","C","h","a","i","n">>))
          => C20_Step(r)]_vars

(***************************************************************************)
(* Encoding normalization                                                  *)
(***************************************************************************)
MaxChunks == 4

\* the pieces the fetched texts are made of: the base64 of "hk\n" and of
\* "a=b", the padded base64 of "\n", a piece of a node line, a piece with a
\* space
ChunkPool ==
    { <<"a","G","s","K">>, <<"Y","T","1","i">>, <<"C","g","=","=">>,
      <<"a","=","1",",">>, <<"h"," ","k",",">> }

RECURSIVE Concat(_)
\* the pieces one after the other
Concat(chunks) == IF chunks = <<>> THEN <<>> ELSE Head(chunks) \o Concat(Tail(chunks))

\* the fetched texts: up to MaxChunks pieces, up to three characters short
\* at the end
FetchedTexts ==
    {SubSeq(Concat(chunks), 1, 4 * Len(chunks) - cut) :
        chunks \in UNION {[1..n -> ChunkPool] : n \in 1..MaxChunks}, cut \in 0..3}

\* the encoding normalization of one fetched text, on its own
DecodeCall(text_content) ==
    /\ unit = <<>>
    /\ unit' = [fetched |-> text_content, working |-> DecodeStep(text_content)]
    /\ UNCHANGED <<conf, SOURCE_CACHE, now, runVars, calls>>

NextDecode == \E text_content \in FetchedTexts : DecodeCall(text_content)

SpecDecode == InitUnit /\ [][NextDecode]_vars

\* the text the decode attempt is made on: the fetched text filled up with
\* "=" to a multiple of four characters
C21_Padded(text) ==
    IF Len(text) % 4 = 0 THEN text
    ELSE text \o [i \in 1..(4 - (Len(text) % 4)) |-> "="]

\* a decode attempt is made on the text, it succeeds, and the decoded text
\* has a line break
C21_Decodes(text) ==
    /\ ~Contains(text, <<" ">>) /\ Len(text) > 10
    /\ Base64Decode(C21_Padded(text)).ok
    /\ \E i \in 1..Len(Base64Decode(C21_Padded(text)).text) :
          Base64Decode(C21_Padded(text)).text[i] \in {"\n", "\r"}

\* C21: the encoding normalization leaves the working text equal to the
\* fetched text, character for character, when the decode attempt fails or
\* the decoded text has no line break; the working text changes only when
\* the decoding succeeds and the decoded text has a line break, and it is
\* then the decoded text.
C21_NormalizationKeepsText ==
    unit # <<>> =>
        unit.working = IF C21_Decodes(unit.fetched)
                       THEN Base64Decode(C21_Padded(unit.fetched)).text
                       ELSE unit.fetched

\* C21 for the fetched texts whose length is a multiple of four
C21_AlignedTexts ==
    (unit # <<>> /\ Len(unit.fetched) % 4 = 0) =>
        unit.working = IF C21_Decodes(unit.fetched)
                       THEN Base64Decode(C21_Padded(unit.fetched)).text
                       ELSE unit.fetched

====
